---------------------------- MODULE Spec2Model ----------------------------
(***************************************************************************)
(* Lab lifecycle automation of lx_toolbox (core/lab_manager.py) and the    *)
(* tools around it.                                                        *)
(*                                                                         *)
(* The program is one sequential script driving one browser session.  It   *)
(* is modelled as a call stack of frames (function, position, locals)      *)
(* stepping against a remote lab page that changes on its own: the lab     *)
(* finishes its transient phases, the panel's buttons get rendered after   *)
(* a navigation, and a click takes effect some time after it was made.     *)
(* Every bounded wait of the code (WebDriverWait(...).until) either sees   *)
(* its condition hold, or times out while the condition does not hold.     *)
(*                                                                         *)
(* The specifications share the variables:                                 *)
(*   Spec        the lab operations and the lab commands of main.py, with  *)
(*               the tab selector reduced to its two outcomes;             *)
(*   RepeatSpec  the lab adjustments applied one call after another;       *)
(*   LiveSpec    recreate_lab against a lab that is also changed from      *)
(*               outside, the script's steps taken fairly;                 *)
(*   TabSpec     interface detection and tab selection, step by step;      *)
(*   SnowSpec    one cycle of ServiceNow auto-assignment                   *)
(*               (core/servicenow_handler.py);                             *)
(*   QASpec      QAReport.add_exercise (core/qa_report.py);                *)
(*   TicketSpec  process_t1_ticket and process_t2_ticket;                  *)
(*   RetrySpec   LinkChecker.retry_failed_links (core/link_checker.py);    *)
(*   CheckSpec   the parallel path of LinkChecker.check_course_links;      *)
(*   StartSpec   `lab start` of main.py and start_lab_for_course           *)
(*               (core/snow_ai_processor.py) on the same probe results.    *)
(* Each leaves the variables of the others unchanged.                      *)
(***************************************************************************)
EXTENDS Naturals, Sequences, FiniteSets

(***************************************************************************)
(* Bounds of the model.                                                    *)
(***************************************************************************)
\* recreate_lab frames the interpreter allows on the call stack at once
MaxDepth == 2
\* largest remaining-hours reading of the auto-stop timer the page shows
MaxHours == 3

(***************************************************************************)
(* Defaults of the program.                                                *)
(***************************************************************************)
\* default of increase_autostop's max_hours
max_hours == 2
\* default of increase_lifespan's times
lifespan_times == 14

(***************************************************************************)
(* Button texts.  A text is a sequence of characters, so that substring    *)
(* tests and upper-casing are computed as Python computes them.            *)
(***************************************************************************)
None == << >>

\* texts as the page renders them (the XPath filter of the prober matches
\* "Creat", "Delet", "Start", "Stop" case-sensitively)
pgCreate   == <<"C","r","e","a","t","e">>
pgCreating == <<"C","r","e","a","t","i","n","g">>
pgDelete   == <<"D","e","l","e","t","e">>
pgDeleting == <<"D","e","l","e","t","i","n","g">>
pgStart    == <<"S","t","a","r","t">>
pgStarting == <<"S","t","a","r","t","i","n","g">>
pgStop     == <<"S","t","o","p">>
pgStopping == <<"S","t","o","p","p","i","n","g">>

\* the upper-case literals the code compares against
CREATE   == <<"C","R","E","A","T","E">>
CREATING == <<"C","R","E","A","T","I","N","G">>
DELETE   == <<"D","E","L","E","T","E">>
DELETING == <<"D","E","L","E","T","I","N","G">>
START    == <<"S","T","A","R","T">>
STARTING == <<"S","T","A","R","T","I","N","G">>
STOP     == <<"S","T","O","P">>
STOPPING == <<"S","T","O","P","P","I","N","G">>

LowerChars == <<"a","b","c","d","e","g","h","i","l","m","n","o","p","r","s","t","u","v","x">>
UpperChars == <<"A","B","C","D","E","G","H","I","L","M","N","O","P","R","S","T","U","V","X">>

\* str.upper() on one character
UpperChar(c) ==
    IF \E i \in 1..Len(LowerChars) : LowerChars[i] = c
    THEN UpperChars[CHOOSE i \in 1..Len(LowerChars) : LowerChars[i] = c]
    ELSE c

\* str.upper()
upper(s) == [i \in 1..Len(s) |-> UpperChar(s[i])]

\* str.lower()
LowerChar(c) ==
    IF \E i \in 1..Len(UpperChars) : UpperChars[i] = c
    THEN LowerChars[CHOOSE i \in 1..Len(UpperChars) : UpperChars[i] = c]
    ELSE c

lower(s) == [i \in 1..Len(s) |-> LowerChar(s[i])]

\* str.strip(): drop leading and trailing blanks
RECURSIVE strip(_)
strip(s) ==
    IF s = << >> THEN s
    ELSE IF Head(s) = " " THEN strip(Tail(s))
    ELSE IF s[Len(s)] = " " THEN strip(SubSeq(s, 1, Len(s) - 1))
    ELSE s

\* Python's `t in s` on strings: t occurs in s as a contiguous substring
Contains(s, t) ==
    \E i \in 0..Len(s) :
        /\ i + Len(t) <= Len(s)
        /\ \A j \in 1..Len(t) : s[i + j] = t[j]

\* `button.text.strip().upper() if button.text else None`
ButtonText(raw) == IF raw = << >> THEN None ELSE upper(strip(raw))


(***************************************************************************)
(* State.                                                                  *)
(***************************************************************************)
VARIABLES
    lab,             \* lifecycle state of the remote lab
    rendered,        \* how many action buttons of the lab panel are in the DOM
    pending,         \* a click the page has received and not yet acted on
    autostop_hours,  \* remaining hours the auto-stop row shows (0: no row)
    stack,           \* call stack of the script, innermost frame last
    outcome,         \* how the outermost call ended, or that it is running
    log,             \* calls, probes, clicks and returns of the outermost call
    interface_type,  \* the session's memoized `_interface_type`
    course_page,     \* the course page as the tab selector meets it
    selector,        \* position and locals of the running tab selection
    detections,      \* what the calls of _detect_interface_type did so far
    assignment,      \* the running ServiceNow auto-assignment cycle
    exercises,       \* QAReport.exercises
    upsert,          \* the list as loaded, and the last add_exercise call
    processing,      \* the running process_t1_ticket or process_t2_ticket call
    reports,         \* LinkChecker.reports
    retry,           \* the running retry_failed_links call
    checking,        \* the parallel link check of one section and its report
    starting         \* `lab start` and start_lab_for_course on the same probes

vars == <<lab, rendered, pending, autostop_hours, stack, outcome, log,
          interface_type, course_page, selector, detections, assignment,
          exercises, upsert, processing, reports, retry, checking, starting>>

\* the state of the lab operations, of the tab selector and of the ticket
\* assignment; Rest is what the lab operations leave alone
LabVars == <<lab, rendered, pending, autostop_hours, stack, outcome, log>>
TabVars == <<interface_type, course_page, selector, detections>>
SnowVars == <<assignment>>
QAVars == <<exercises, upsert>>
TicketVars == <<processing>>
RetryVars == <<reports, retry>>
CheckVars == <<checking>>
StartVars == <<starting>>
\* the state of the tools that do not drive the browser session
ToolVars == <<QAVars, TicketVars, RetryVars, CheckVars, StartVars>>
Session == <<LabVars, TabVars, SnowVars>>
\* what each tool leaves alone
QARest == <<Session, TicketVars, RetryVars, CheckVars, StartVars>>
TicketRest == <<Session, QAVars, RetryVars, CheckVars, StartVars>>
RetryRest == <<Session, QAVars, TicketVars, CheckVars, StartVars>>
CheckRest == <<Session, QAVars, TicketVars, RetryVars, StartVars>>
StartRest == <<Session, QAVars, TicketVars, RetryVars, CheckVars>>
Rest == <<TabVars, SnowVars, ToolVars>>

(***************************************************************************)
(* The remote lab page.                                                    *)
(***************************************************************************)
LabStates ==
    {"NoLab", "Creating", "Starting", "Running", "Stopped", "Stopping", "Deleting"}

\* the action buttons of the lab panel, in document order, per lifecycle state
Buttons(l) ==
    CASE l = "NoLab"    -> <<pgCreate>>
      [] l = "Creating" -> <<pgCreating, pgStarting>>
      [] l = "Starting" -> <<pgDelete, pgStarting>>
      [] l = "Running"  -> <<pgDelete, pgStop>>
      [] l = "Stopped"  -> <<pgDelete, pgStart>>
      [] l = "Stopping" -> <<pgDelete, pgStopping>>
      [] l = "Deleting" -> <<pgDeleting>>

Min(a, b) == IF a <= b THEN a ELSE b

\* the buttons the XPath query finds right now
VisibleButtons == SubSeq(Buttons(lab), 1, Min(rendered, Len(Buttons(lab))))

\* a variant that reports the texts as the page shows them
get_lab_buttons_by_position_raw ==
    LET buttons == VisibleButtons
    IN  << IF Len(buttons) >= 1 THEN buttons[1] ELSE None,
           IF Len(buttons) >= 2 THEN buttons[2] ELSE None >>

\* _get_lab_buttons_by_position: <<first_text, second_text>>; finding no button
\* within the timeout is tolerated and yields (None, None)
get_lab_buttons_by_position ==
    LET buttons == VisibleButtons
    IN  << IF Len(buttons) >= 1 THEN ButtonText(buttons[1]) ELSE None,
           IF Len(buttons) >= 2 THEN ButtonText(buttons[2]) ELSE None >>

\* _get_lab_action_button with position "first" or "second":
\* <<button found, its text>>
get_lab_action_button(action_texts, position) ==
    LET probe == get_lab_buttons_by_position
        text  == IF position = "first" THEN probe[1] ELSE probe[2]
    IN  IF /\ text # None
           /\ \E k \in 1..Len(action_texts) : Contains(text, upper(action_texts[k]))
        THEN <<TRUE, text>>
        ELSE <<FALSE, None>>

\* check_lab_status once the tab is selected: (primary_status, secondary_status)
check_lab_status == get_lab_buttons_by_position

\* is_lab_running: False when the tab cannot be selected
is_lab_running(selected) ==
    IF selected THEN check_lab_status[2] \in {STOP, STOPPING, STARTING} ELSE FALSE

\* the "Open Console" button _click_lab_adjustment_button waits for
OpenConsolePresent == lab = "Running"

(***************************************************************************)
(* The call stack.                                                         *)
(***************************************************************************)
Operations == {"create_lab", "start_lab", "stop_lab", "delete_lab", "recreate_lab"}

\* the lab commands of the command line
Commands == {"lab_start", "lab_stop", "lab_create", "lab_delete", "lab_recreate"}

\* first position of each function
EntryPc(fn) ==
    CASE fn = "recreate_lab"      -> "go_to_course"
      [] fn = "increase_autostop" -> "get_hours"
      [] fn = "lab_start"         -> "check_lab_status"
      [] fn \in Commands          -> "operation"
      [] OTHER                    -> "select_tab"

\* a fresh frame; first_text, second_text and times are the function's locals
Frame(fn) ==
    [fn |-> fn, pc |-> EntryPc(fn), first_text |-> None, second_text |-> None,
     times |-> IF fn = "increase_lifespan" THEN lifespan_times ELSE 0]

Top == stack[Len(stack)]
At(fn, pc) == stack # << >> /\ Top.fn = fn /\ Top.pc = pc

\* number of recreate_lab invocations on the stack
Depth(stk) == Cardinality({i \in DOMAIN stk : stk[i].fn = "recreate_lab"})

\* a log entry: what happened, the button texts it saw, a click count, and
\* how many recreate_lab invocations were on the stack
Event(ev, first, second) ==
    [ev |-> ev, first |-> first, second |-> second, n |-> 0, d |-> Depth(stack)]
Clicks(ev, n) == [Event(ev, None, None) EXCEPT !.n = n]

\* the stack with the innermost frame changed
WithTop(stk, f) == [stk EXCEPT ![Len(stk)] = f]
Goto(pc) == WithTop(stack, [Top EXCEPT !.pc = pc])

\* the innermost frame calls fn and will continue at cont when fn returns
CallFrom(f, cont, fn) == Append(WithTop(stack, [f EXCEPT !.pc = cont]), Frame(fn))
CallFn(cont, fn) == CallFrom(Top, cont, fn)

Popped == SubSeq(stack, 1, Len(stack) - 1)

\* a variant of the commands' ending that reports success in every case
CommandOutcome_always_success(raised) == "exit 0"

\* how a command ends: `except Exception: ...; sys.exit(1)`, or it falls off
\* the end of its try block after its success message
CommandOutcome(raised) == IF raised THEN "exit 1" ELSE "exit 0"

\* the innermost function, its locals as in f, returns normally
ReturnOf(f, events) ==
    /\ stack' = Popped
    /\ log' = log \o events \o <<Event(f.fn \o ".return", f.first_text, f.second_text)>>
    /\ outcome' = IF Len(stack) > 1 THEN outcome
                  ELSE IF f.fn \in Commands THEN CommandOutcome(FALSE)
                  ELSE "returned"

Return(events) == ReturnOf(Top, events)

\* a variant without the try/except of the fallback
Catches_nothing(f) == FALSE

\* recreate_lab's unknown-state fallback wraps delete_lab and the wait that
\* follows it in try/except Exception; the frame is at fb_wait during both
Catches(f) == f.fn = "recreate_lab" /\ f.pc = "fb_wait"

\* an exception travels up the stack to the nearest handler, which resumes
\* at the statement after the try block; with no handler the stack empties
RECURSIVE Unwind(_)
Unwind(stk) ==
    IF stk = << >> THEN stk
    ELSE IF Catches(stk[Len(stk)])
         THEN [stk EXCEPT ![Len(stk)].pc = "fb_create"]
         ELSE Unwind(SubSeq(stk, 1, Len(stk) - 1))

\* the innermost function raises
Raise(events) ==
    /\ stack' = Unwind(stack)
    /\ log' = log \o events \o <<Event(Top.fn \o ".raise", Top.first_text, Top.second_text)>>
    /\ outcome' = IF Unwind(stack) # << >> THEN outcome
                  ELSE IF stack[1].fn \in Commands THEN CommandOutcome(TRUE)
                  ELSE "raised"

Step(stk, events) ==
    /\ stack' = stk
    /\ log' = log \o events
    /\ outcome' = outcome

Page == <<lab, rendered, pending, autostop_hours>>

(***************************************************************************)
(* The course page and the session as the tab selector sees them.          *)
(***************************************************************************)
INTERFACE_OLD == "old"
INTERFACE_NEW == "new"

\* the tabs of a course page, by the text or id its locator matches
TabsOf(interface) ==
    IF interface = INTERFACE_NEW THEN {"Course", "Lab Environment"} ELSE {"1", "2", "8"}

\* a course page: the interface it renders, whether its content is in the
\* DOM yet, whether the cookie consent banner covers it, whether its tabs
\* react to clicks, and the tab whose aria-selected is "true"
CoursePages ==
    {p \in [interface : {INTERFACE_OLD, INTERFACE_NEW}, loaded : BOOLEAN,
            banner : BOOLEAN, responsive : BOOLEAN,
            selected : {"none", "1", "2", "8", "Course", "Lab Environment"}] :
        p.selected \in TabsOf(p.interface) \cup {"none"}}

\* no tab selection is running
SelectorIdle ==
    [pc |-> "idle", fn |-> "none", tab_name |-> None, interface |-> "None",
     locator |-> "none", clicks |-> 0, observed |-> FALSE, result |-> "none"]

\* no call of _detect_interface_type was made
NoDetections ==
    [returned |-> "None", before_reset |-> "None", prev |-> "None", ret |-> "None",
     inspected |-> FALSE, new_marker |-> "not looked", old_marker |-> "not looked",
     navigated |-> FALSE, after_navigation |-> FALSE]

\* Python's None where a name or a URL is expected
NoValue == "<None>"

\* no assignment cycle has run
NoAssignment ==
    [pc |-> "idle", team_key |-> NoValue, url |-> NoValue, requested |-> NoValue,
     assignee_name |-> NoValue, tickets |-> 0, assigned_to |-> << >>,
     stats |-> [assigned |-> 0, errors |-> 0], result |-> "none"]

\* no add_exercise call was made
\* (result holds the argument of the call, once there was one)
NoUpsert == [loaded |-> << >>, prev |-> << >>, result |-> << >>]

\* no ticket is being processed
NoProcessing ==
    [pc |-> "idle", fn |-> "none", ticket |-> NoValue, has_group |-> FALSE,
     assignee_sys_id |-> NoValue, sent |-> << >>, result |-> "none"]

\* the tools outside the browser session are not in use
QAIdle ==
    /\ exercises = << >>
    /\ upsert = NoUpsert

TicketIdle == processing = NoProcessing

\* no retry_failed_links call was made
NoRetry ==
    [pc |-> "idle", start |-> << >>, report |-> 0, failed_results |-> << >>,
     fixed_count |-> 0, revalidated |-> {}, returned |-> FALSE, result |-> 0]

RetryIdle ==
    /\ reports = << >>
    /\ retry = NoRetry

\* no links are being checked; the report is as CourseCheckReport(...) made it
NoChecking ==
    [pc |-> "idle", futures |-> << >>, collected |-> {}, future |-> 0,
     report |-> [results |-> << >>, valid_links |-> 0, broken_links |-> 0]]

CheckIdle == checking = NoChecking

\* one of the two start sequences before its first probe
NotStarted ==
    [pc |-> "check_lab_status", primary_status |-> << >>,
     secondary_status |-> << >>, calls |-> << >>]

\* neither start sequence runs
NoStarting == [probes |-> << >>, start |-> NotStarted, start_lab_for_course |-> NotStarted]

StartIdle == starting = NoStarting

ToolsIdle == QAIdle /\ TicketIdle /\ RetryIdle /\ CheckIdle /\ StartIdle

\* the browser session and the ticket assignment are not in use
SessionIdle ==
    /\ lab = "NoLab"
    /\ rendered = 0
    /\ pending = "none"
    /\ autostop_hours = 0
    /\ stack = << >>
    /\ outcome = "idle"
    /\ log = << >>
    /\ interface_type = "None"
    /\ course_page = [interface |-> INTERFACE_NEW, loaded |-> TRUE, banner |-> FALSE,
                      responsive |-> TRUE, selected |-> "none"]
    /\ selector = SelectorIdle
    /\ detections = NoDetections
    /\ assignment = NoAssignment

(***************************************************************************)
(* Initial state and the caller.                                           *)
(***************************************************************************)
Init ==
    /\ lab \in LabStates
    /\ rendered \in 0..2
    /\ pending = "none"
    /\ autostop_hours \in IF lab \in {"NoLab", "Deleting"} THEN {0} ELSE 1..MaxHours
    /\ stack = << >>
    /\ outcome = "idle"
    /\ log = << >>
    /\ interface_type = "None"
    /\ course_page = [interface |-> INTERFACE_NEW, loaded |-> TRUE, banner |-> FALSE,
                      responsive |-> TRUE, selected |-> "none"]
    /\ selector = SelectorIdle
    /\ detections = NoDetections
    /\ assignment = NoAssignment
    /\ ToolsIdle

\* a caller (a CLI command, another component) navigates to the course page
\* and invokes one lab operation on the session
Call(op) ==
    /\ stack = << >>
    /\ stack' = <<Frame(op)>>
    /\ outcome' = "running"
    /\ log' = <<[Event(op, None, None) EXCEPT !.d = Depth(<<Frame(op)>>)]>>
    /\ rendered' \in 0..2
    /\ pending' = "none"
    /\ UNCHANGED <<lab, autostop_hours>>
    /\ UNCHANGED Rest

\* the log entry of a tab selection that raised inside fn
TabFailed(fn) == Event(fn \o ".tab_failed", None, None)

\* select_lab_environment_tab at the head of an operation: it selects the tab
\* or raises "Could not select tab"
NextAfterTab(fn) ==
    CASE fn = "recreate_lab" -> "check_lab_status"
      [] fn \in {"increase_autostop", "increase_lifespan"} -> "wait_console"
      [] OTHER -> "probe"

\* a variant in which the failure is logged and the operation goes on
select_lab_environment_tab_swallowed ==
    /\ stack # << >>
    /\ Top.pc = "select_tab"
    /\ \E selected \in BOOLEAN :
          Step(Goto(NextAfterTab(Top.fn)),
               IF selected THEN << >> ELSE <<TabFailed(Top.fn)>>)
    /\ UNCHANGED Page
    /\ UNCHANGED Rest

select_lab_environment_tab ==
    /\ stack # << >>
    /\ Top.pc = "select_tab"
    /\ \E selected \in BOOLEAN :
          IF selected
          THEN Step(Goto(NextAfterTab(Top.fn)), << >>)
          ELSE Raise(<<TabFailed(Top.fn)>>)
    /\ UNCHANGED Page
    /\ UNCHANGED Rest

(***************************************************************************)
(* create_lab                                                              *)
(***************************************************************************)
\* a variant that trusts the position: the first button is clicked whatever it reads
create_clickable_any_first_button == get_lab_buttons_by_position[1] # None

\* `create_button, btn_text = self._get_lab_action_button(["Create"], position="first")`
\* `if create_button and btn_text == "CREATE"`
create_clickable ==
    LET b == get_lab_action_button(<<pgCreate>>, "first")
    IN  b[1] /\ b[2] = CREATE

\* the texts of the first button that end create_lab's wait
create_wait_states == {CREATING, DELETE, DELETING}

create_lab_probe ==
    /\ At("create_lab", "probe")
    /\ LET b == get_lab_action_button(<<pgCreate>>, "first")
           f == [Top EXCEPT !.first_text = get_lab_buttons_by_position[1]]
           probed == Event("create_lab.probe", f.first_text, None)
       IN  IF create_clickable
           THEN /\ Step(WithTop(stack, [f EXCEPT !.pc = "wait"]),
                        <<probed, Event("create_lab.click", b[2], None)>>)
                /\ pending' = "create"
           ELSE /\ ReturnOf(f, <<probed>>)
                /\ UNCHANGED pending
    /\ UNCHANGED <<lab, rendered, autostop_hours>>
    /\ UNCHANGED Rest

create_lab_wait ==
    /\ At("create_lab", "wait")
    /\ get_lab_buttons_by_position[1] \in create_wait_states
    /\ Return(<<Event("create_lab.wait", get_lab_buttons_by_position[1], None)>>)
    /\ UNCHANGED Page
    /\ UNCHANGED Rest

(***************************************************************************)
(* start_lab                                                               *)
(***************************************************************************)
\* a variant without the exact comparison of the text
start_clickable_found_only == get_lab_action_button(<<pgStart>>, "second")[1]

\* `start_button, btn_text = self._get_lab_action_button(["Start"], position="second")`
\* `if start_button and btn_text == "START"`
start_clickable ==
    LET b == get_lab_action_button(<<pgStart>>, "second")
    IN  b[1] /\ b[2] = START

start_wait_states == {STARTING, STOP, STOPPING}

start_lab_probe ==
    /\ At("start_lab", "probe")
    /\ LET b == get_lab_action_button(<<pgStart>>, "second")
           f == [Top EXCEPT !.second_text = get_lab_buttons_by_position[2]]
           probed == Event("start_lab.probe", None, f.second_text)
       IN  IF start_clickable
           THEN /\ Step(WithTop(stack, [f EXCEPT !.pc = "wait"]),
                        <<probed, Event("start_lab.click", None, b[2])>>)
                /\ pending' = "start"
           ELSE /\ Step(WithTop(stack, [f EXCEPT !.pc = "else"]), <<probed>>)
                /\ UNCHANGED pending
    /\ UNCHANGED <<lab, rendered, autostop_hours>>
    /\ UNCHANGED Rest

\* the else branch probes again only to choose its log message
start_lab_else ==
    /\ At("start_lab", "else")
    /\ ReturnOf([Top EXCEPT !.second_text = get_lab_buttons_by_position[2]], << >>)
    /\ UNCHANGED Page
    /\ UNCHANGED Rest

start_lab_wait ==
    /\ At("start_lab", "wait")
    /\ get_lab_buttons_by_position[2] \in start_wait_states
    /\ Return(<<Event("start_lab.wait", None, get_lab_buttons_by_position[2])>>)
    /\ UNCHANGED Page
    /\ UNCHANGED Rest

(***************************************************************************)
(* stop_lab                                                                *)
(***************************************************************************)
\* a variant without the exact comparison of the text
stop_clickable_found_only == get_lab_action_button(<<pgStop>>, "second")[1]

\* `stop_button, btn_text = self._get_lab_action_button(["Stop"], position="second")`
\* `if stop_button and btn_text == "STOP"`
stop_clickable ==
    LET b == get_lab_action_button(<<pgStop>>, "second")
    IN  b[1] /\ b[2] = STOP

stop_wait_states == {STOPPING, START}

stop_lab_probe ==
    /\ At("stop_lab", "probe")
    /\ LET b == get_lab_action_button(<<pgStop>>, "second")
           f == [Top EXCEPT !.second_text = get_lab_buttons_by_position[2]]
           probed == Event("stop_lab.probe", None, f.second_text)
       IN  IF stop_clickable
           THEN Step(WithTop(stack, [f EXCEPT !.pc = "confirm"]),
                     <<probed, Event("stop_lab.click", None, b[2])>>)
           ELSE Step(WithTop(stack, [f EXCEPT !.pc = "else"]), <<probed>>)
    /\ UNCHANGED Page
    /\ UNCHANGED Rest

\* the confirmation dialog's Stop button becomes clickable and is clicked, or
\* the wait for it times out
stop_lab_confirm ==
    /\ At("stop_lab", "confirm")
    /\ \E clickable \in BOOLEAN :
          IF clickable
          THEN /\ Step(Goto("wait"), <<Event("stop_lab.confirm", None, None)>>)
               /\ pending' = "stop"
          ELSE /\ Raise(<< >>)
               /\ UNCHANGED pending
    /\ UNCHANGED <<lab, rendered, autostop_hours>>
    /\ UNCHANGED Rest

stop_lab_else ==
    /\ At("stop_lab", "else")
    /\ ReturnOf([Top EXCEPT !.second_text = get_lab_buttons_by_position[2]], << >>)
    /\ UNCHANGED Page
    /\ UNCHANGED Rest

stop_lab_wait ==
    /\ At("stop_lab", "wait")
    /\ get_lab_buttons_by_position[2] \in stop_wait_states
    /\ Return(<<Event("stop_lab.wait", None, get_lab_buttons_by_position[2])>>)
    /\ UNCHANGED Page
    /\ UNCHANGED Rest

(***************************************************************************)
(* delete_lab                                                              *)
(***************************************************************************)
\* `delete_button, btn_text = self._get_lab_action_button(["Delete"], position="first")`
\* `if delete_button and btn_text == "DELETE"`
delete_clickable ==
    LET b == get_lab_action_button(<<pgDelete>>, "first")
    IN  b[1] /\ b[2] = DELETE

\* the first wait after the confirmation
delete_wait_states == {DELETING, CREATE}

\* a variant that never takes the second wait
delete_still_deleting_never(first_text) == FALSE

\* `if first_text == "DELETING"`: a second, longer wait for CREATE follows
delete_still_deleting(first_text) == first_text = DELETING

delete_lab_probe ==
    /\ At("delete_lab", "probe")
    /\ LET b == get_lab_action_button(<<pgDelete>>, "first")
           f == [Top EXCEPT !.first_text = get_lab_buttons_by_position[1]]
           probed == Event("delete_lab.probe", f.first_text, None)
       IN  IF delete_clickable
           THEN Step(WithTop(stack, [f EXCEPT !.pc = "confirm"]),
                     <<probed, Event("delete_lab.click", b[2], None)>>)
           ELSE Step(WithTop(stack, [f EXCEPT !.pc = "else"]), <<probed>>)
    /\ UNCHANGED Page
    /\ UNCHANGED Rest

delete_lab_confirm ==
    /\ At("delete_lab", "confirm")
    /\ \E clickable \in BOOLEAN :
          IF clickable
          THEN /\ Step(Goto("wait"), <<Event("delete_lab.confirm", None, None)>>)
               /\ pending' = "delete"
          ELSE /\ Raise(<< >>)
               /\ UNCHANGED pending
    /\ UNCHANGED <<lab, rendered, autostop_hours>>
    /\ UNCHANGED Rest

\* WebDriverWait(120) until the first button reads DELETING or CREATE
delete_lab_wait ==
    /\ At("delete_lab", "wait")
    /\ get_lab_buttons_by_position[1] \in delete_wait_states
    /\ Step(WithTop(stack, [Top EXCEPT !.pc = "reprobe",
                                       !.first_text = get_lab_buttons_by_position[1]]),
            <<Event("delete_lab.wait", get_lab_buttons_by_position[1], None)>>)
    /\ UNCHANGED Page
    /\ UNCHANGED Rest

\* first_text = self._get_lab_buttons_by_position()[1]
delete_lab_reprobe ==
    /\ At("delete_lab", "reprobe")
    /\ LET f == [Top EXCEPT !.first_text = get_lab_buttons_by_position[1]]
       IN  IF delete_still_deleting(f.first_text)
           THEN Step(WithTop(stack, [f EXCEPT !.pc = "wait_create"]), << >>)
           ELSE ReturnOf(f, << >>)
    /\ UNCHANGED Page
    /\ UNCHANGED Rest

\* WebDriverWait(180) until the first button reads CREATE
delete_lab_wait_create ==
    /\ At("delete_lab", "wait_create")
    /\ get_lab_buttons_by_position[1] = CREATE
    /\ ReturnOf([Top EXCEPT !.first_text = get_lab_buttons_by_position[1]],
                <<Event("delete_lab.wait", get_lab_buttons_by_position[1], None)>>)
    /\ UNCHANGED Page
    /\ UNCHANGED Rest

delete_lab_else ==
    /\ At("delete_lab", "else")
    /\ ReturnOf([Top EXCEPT !.first_text = get_lab_buttons_by_position[1]], << >>)
    /\ UNCHANGED Page
    /\ UNCHANGED Rest

(***************************************************************************)
(* Auto-stop reading, increase_autostop, increase_lifespan and             *)
(* _click_lab_adjustment_button                                            *)
(***************************************************************************)
DigitChars == <<"0","1","2","3","4","5","6","7","8","9">>
IsDigit(c) == \E i \in 1..Len(DigitChars) : DigitChars[i] = c
DigitVal(c) == (CHOOSE i \in 1..Len(DigitChars) : DigitChars[i] = c) - 1

\* the text of the auto-stop row's <time> element for h remaining hours
TimeText(h) ==
    IF h = 1 THEN <<"i","n"," ","a","n"," ","h","o","u","r">>
    ELSE <<"i","n"," ">> \o <<DigitChars[h + 1]>> \o <<" ","h","o","u","r","s">>

\* int(re.search(r'(\d+)', text).group(1)): the value of the first run of
\* digits from position i on, acc being the value read so far
RECURSIVE DigitRun(_, _, _)
DigitRun(text, i, acc) ==
    IF i > Len(text) \/ ~IsDigit(text[i]) THEN acc
    ELSE DigitRun(text, i + 1, acc * 10 + DigitVal(text[i]))

HasDigit(text) == \E i \in 1..Len(text) : IsDigit(text[i])
FirstDigit(text) == CHOOSE i \in 1..Len(text) :
                        IsDigit(text[i]) /\ \A j \in 1..(i - 1) : ~IsDigit(text[j])

\* the parsing half of get_autostop_hours_remaining
ParseHours(text) ==
    IF Contains(text, <<"a","n"," ","h","o","u","r">>) THEN 1
    ELSE IF HasDigit(text) THEN DigitRun(text, FirstDigit(text), 0)
    ELSE 0

\* a variant that reads the timer as unreadable in every case
get_autostop_hours_remaining_unreadable(selected) == 0

\* get_autostop_hours_remaining: 0 when the tab cannot be selected or the
\* <time> element does not appear (every exception is caught)
get_autostop_hours_remaining(selected) ==
    IF selected /\ autostop_hours > 0
    THEN ParseHours(lower(TimeText(autostop_hours)))
    ELSE 0

\* a variant with the fixed click count of the fallback
hours_to_add_fixed(current_hours) == max_hours

\* hours_to_add = max(0, max_hours - current_hours)
hours_to_add(current_hours) ==
    IF max_hours > current_hours THEN max_hours - current_hours ELSE 0

\* increase_autostop up to the call of _click_lab_adjustment_button; both
\* of its paths log the reading
increase_autostop ==
    /\ At("increase_autostop", "get_hours")
    /\ \E selected \in BOOLEAN :
          LET current_hours == get_autostop_hours_remaining(selected)
              add == hours_to_add(current_hours)
              failed == IF selected THEN << >>
                        ELSE <<TabFailed("get_autostop_hours_remaining")>>
              read == failed \o <<Clicks("increase_autostop.hours", current_hours)>>
          IN  IF add <= 0
              THEN Return(read)
              ELSE Step(WithTop(stack, [Top EXCEPT !.pc = "select_tab", !.times = add]),
                        read)
    /\ UNCHANGED Page
    /\ UNCHANGED Rest

\* _click_lab_adjustment_button once "Open Console" is present: the row's
\* button is found and clicked `times` times, or is not found in time, which
\* is logged and swallowed
adjustment_click ==
    /\ stack # << >>
    /\ Top.fn \in {"increase_autostop", "increase_lifespan"}
    /\ Top.pc = "wait_console"
    /\ OpenConsolePresent
    /\ \E found \in BOOLEAN :
          IF found
          THEN /\ Return(<<Clicks(Top.fn \o ".click", Top.times)>>)
               /\ autostop_hours' =
                      IF Top.fn = "increase_autostop"
                      THEN Min(autostop_hours + Top.times, MaxHours)
                      ELSE autostop_hours
          ELSE /\ Return(<< >>)
               /\ UNCHANGED autostop_hours
    /\ UNCHANGED <<lab, rendered, pending>>
    /\ UNCHANGED Rest

\* the wait for "Open Console" times out: `except TimeoutException` logs the
\* error and the function returns normally
adjustment_timeout ==
    /\ stack # << >>
    /\ Top.fn \in {"increase_autostop", "increase_lifespan"}
    /\ Top.pc = "wait_console"
    /\ ~OpenConsolePresent
    /\ Return(<< >>)
    /\ UNCHANGED Page
    /\ UNCHANGED Rest

(***************************************************************************)
(* recreate_lab                                                            *)
(***************************************************************************)
\* a variant that creates over an existing lab without deleting it
recreate_branch_no_delete(primary_status) ==
    CASE primary_status = CREATE   -> "create"
      [] primary_status = DELETE   -> "create"
      [] primary_status = CREATING -> "creating"
      [] primary_status = DELETING -> "deleting"
      [] OTHER                     -> "fallback"

\* the if/elif chain on primary_status
recreate_branch(primary_status) ==
    CASE primary_status = CREATE   -> "create"
      [] primary_status = DELETE   -> "delete"
      [] primary_status = CREATING -> "creating"
      [] primary_status = DELETING -> "deleting"
      [] OTHER                     -> "fallback"

\* a variant whose wait also ends while the lab is still creating
creating_wait_states_any == {DELETE, CREATE, CREATING}

\* the texts of the first button that end the wait of the CREATING branch
creating_wait_states == {DELETE, CREATE}

\* go_to_course: the page is loaded anew and its lab panel renders again
recreate_go_to_course ==
    /\ At("recreate_lab", "go_to_course")
    /\ Step(Goto("select_tab"), <<Event("go_to_course", None, None)>>)
    /\ rendered' \in 0..2
    /\ UNCHANGED <<lab, pending, autostop_hours>>
    /\ UNCHANGED Rest

\* check_lab_status (tab selection, then the probe) and the dispatch on it
recreate_check_lab_status ==
    /\ At("recreate_lab", "check_lab_status")
    /\ \E selected \in BOOLEAN :
          IF ~selected THEN Raise(<<TabFailed("recreate_lab")>>)
          ELSE
            LET probe  == check_lab_status
                f      == [Top EXCEPT !.first_text = probe[1], !.second_text = probe[2]]
                probed == Event("check_lab_status", probe[1], probe[2])
                branch == recreate_branch(probe[1])
            IN  CASE branch = "create" ->
                       Step(CallFrom(f, "adjust", "create_lab"),
                            <<probed, Event("create_lab", None, None)>>)
                  [] branch = "delete" ->
                       Step(CallFrom(f, "wait_create", "delete_lab"),
                            <<probed, Event("delete_lab", None, None)>>)
                  [] branch = "creating" ->
                       Step(WithTop(stack, [f EXCEPT !.pc = "wait_creating"]), <<probed>>)
                  [] branch = "deleting" ->
                       Step(WithTop(stack, [f EXCEPT !.pc = "wait_deleting"]), <<probed>>)
                  [] branch = "fallback" ->
                       Step(CallFrom(f, "fb_wait", "delete_lab"),
                            <<probed, Event("fallback", probe[1], probe[2]),
                              Event("delete_lab", None, None)>>)
    /\ UNCHANGED Page
    /\ UNCHANGED Rest

\* DELETE branch: WebDriverWait(180) until CREATE, then create_lab
recreate_wait_create ==
    /\ At("recreate_lab", "wait_create")
    /\ get_lab_buttons_by_position[1] = CREATE
    /\ Step(CallFn("adjust", "create_lab"),
            <<Event("recreate_lab.wait", get_lab_buttons_by_position[1], None),
              Event("create_lab", None, None)>>)
    /\ UNCHANGED Page
    /\ UNCHANGED Rest

\* CREATING branch: WebDriverWait(300) until DELETE or CREATE, then
\* recreate_lab calls itself
recreate_wait_creating ==
    /\ At("recreate_lab", "wait_creating")
    /\ get_lab_buttons_by_position[1] \in creating_wait_states
    /\ Depth(stack) < MaxDepth
    /\ Step(CallFn("after_recursion", "recreate_lab"),
            <<Event("recreate_lab.wait", get_lab_buttons_by_position[1], None),
              [Event("recreate_lab", None, None) EXCEPT !.d = Depth(stack) + 1]>>)
    /\ UNCHANGED Page
    /\ UNCHANGED Rest

\* a variant without the return after the recursive call
recreate_after_recursion_falls_through ==
    /\ At("recreate_lab", "after_recursion")
    /\ Step(Goto("adjust"), << >>)
    /\ UNCHANGED Page
    /\ UNCHANGED Rest

\* `return  # Don't do increase_autostop/lifespan twice`
recreate_after_recursion ==
    /\ At("recreate_lab", "after_recursion")
    /\ Return(<< >>)
    /\ UNCHANGED Page
    /\ UNCHANGED Rest

\* a variant that creates without waiting for the deletion to finish
recreate_wait_deleting_unconditional ==
    /\ At("recreate_lab", "wait_deleting")
    /\ Step(CallFn("adjust", "create_lab"),
            <<Event("recreate_lab.wait", get_lab_buttons_by_position[1], None),
              Event("create_lab", None, None)>>)
    /\ UNCHANGED Page
    /\ UNCHANGED Rest

\* DELETING branch: WebDriverWait(300) until CREATE, then create_lab
recreate_wait_deleting ==
    /\ At("recreate_lab", "wait_deleting")
    /\ get_lab_buttons_by_position[1] = CREATE
    /\ Step(CallFn("adjust", "create_lab"),
            <<Event("recreate_lab.wait", get_lab_buttons_by_position[1], None),
              Event("create_lab", None, None)>>)
    /\ UNCHANGED Page
    /\ UNCHANGED Rest

\* fallback: the wait for CREATE after delete_lab, inside the try block
recreate_fb_wait ==
    /\ At("recreate_lab", "fb_wait")
    /\ get_lab_buttons_by_position[1] = CREATE
    /\ Step(Goto("fb_create"),
            <<Event("recreate_lab.wait", get_lab_buttons_by_position[1], None)>>)
    /\ UNCHANGED Page
    /\ UNCHANGED Rest

\* fallback: create_lab after the try block
recreate_fb_create ==
    /\ At("recreate_lab", "fb_create")
    /\ Step(CallFn("adjust", "create_lab"), <<Event("create_lab", None, None)>>)
    /\ UNCHANGED Page
    /\ UNCHANGED Rest

\* self.increase_autostop(course_id)
recreate_increase_autostop ==
    /\ At("recreate_lab", "adjust")
    /\ Step(CallFn("lifespan", "increase_autostop"),
            <<Event("increase_autostop", None, None)>>)
    /\ UNCHANGED Page
    /\ UNCHANGED Rest

\* self.increase_lifespan(course_id)
recreate_increase_lifespan ==
    /\ At("recreate_lab", "lifespan")
    /\ Step(CallFn("finish", "increase_lifespan"),
            <<Event("increase_lifespan", None, None)>>)
    /\ UNCHANGED Page
    /\ UNCHANGED Rest

\* "recreate sequence finished"
recreate_finish ==
    /\ At("recreate_lab", "finish")
    /\ Return(<< >>)
    /\ UNCHANGED Page
    /\ UNCHANGED Rest

(***************************************************************************)
(* The lab commands of the command line                                    *)
(***************************************************************************)
\* a lab command starts: the session logs in and, except for `lab recreate`,
\* navigates to the course page
Command(cmd) ==
    /\ stack = << >>
    /\ stack' = <<Frame(cmd)>>
    /\ outcome' = "running"
    /\ log' = <<Event(cmd, None, None)>>
    /\ rendered' \in 0..2
    /\ pending' = "none"
    /\ UNCHANGED <<lab, autostop_hours>>
    /\ UNCHANGED Rest

\* the operation a command calls first, and where the command goes on after it
CommandOperation(cmd) ==
    CASE cmd = "lab_stop"     -> <<"stop_lab", "echo">>
      [] cmd = "lab_create"   -> <<"create_lab", "adjust">>
      [] cmd = "lab_delete"   -> <<"delete_lab", "echo">>
      [] cmd = "lab_recreate" -> <<"recreate_lab", "echo">>

\* lab stop, lab create, lab delete, lab recreate: the call of the operation
command_operation ==
    /\ stack # << >>
    /\ Top.fn \in Commands \ {"lab_start"}
    /\ Top.pc = "operation"
    /\ LET op == CommandOperation(Top.fn)
       IN  Step(CallFn(op[2], op[1]),
                <<[Event(op[1], None, None) EXCEPT !.d = Depth(<<Frame(op[1])>>)]>>)
    /\ UNCHANGED Page
    /\ UNCHANGED Rest

\* lab start: check_lab_status, then create_lab if the first button is CREATE
lab_start_check_lab_status ==
    /\ At("lab_start", "check_lab_status")
    /\ \E selected \in BOOLEAN :
          IF ~selected THEN Raise(<<TabFailed("lab_start")>>)
          ELSE
            LET f == [Top EXCEPT !.first_text = check_lab_status[1],
                                 !.second_text = check_lab_status[2]]
                probed == Event("lab_start.check_lab_status", f.first_text, f.second_text)
            IN  IF f.first_text = CREATE
                THEN Step(CallFrom(f, "recheck", "create_lab"),
                          <<probed, Event("create_lab", None, None)>>)
                ELSE Step(WithTop(stack, [f EXCEPT !.pc = "start"]), <<probed>>)
    /\ UNCHANGED Page
    /\ UNCHANGED Rest

\* lab start: `primary_status, _ = lab_mgr.check_lab_status()` after
\* create_lab; the secondary status keeps the value of the first probe
lab_start_recheck ==
    /\ At("lab_start", "recheck")
    /\ \E selected \in BOOLEAN :
          IF ~selected THEN Raise(<<TabFailed("lab_start")>>)
          ELSE Step(WithTop(stack, [Top EXCEPT !.first_text = check_lab_status[1],
                                               !.pc = "start"]),
                    <<Event("lab_start.check_lab_status",
                            check_lab_status[1], check_lab_status[2])>>)
    /\ UNCHANGED Page
    /\ UNCHANGED Rest

\* lab start: start_lab if the secondary status is START
lab_start_start ==
    /\ At("lab_start", "start")
    /\ IF Top.second_text = START
       THEN Step(CallFn("adjust", "start_lab"), <<Event("start_lab", None, None)>>)
       ELSE Step(Goto("adjust"), << >>)
    /\ UNCHANGED Page
    /\ UNCHANGED Rest

\* lab start, lab create: lab_mgr.increase_autostop(course_id)
command_increase_autostop ==
    /\ stack # << >>
    /\ Top.fn \in Commands
    /\ Top.pc = "adjust"
    /\ Step(CallFn("lifespan", "increase_autostop"),
            <<Event("increase_autostop", None, None)>>)
    /\ UNCHANGED Page
    /\ UNCHANGED Rest

\* lab start, lab create: lab_mgr.increase_lifespan(course_id)
command_increase_lifespan ==
    /\ stack # << >>
    /\ Top.fn \in Commands
    /\ Top.pc = "lifespan"
    /\ Step(CallFn("echo", "increase_lifespan"),
            <<Event("increase_lifespan", None, None)>>)
    /\ UNCHANGED Page
    /\ UNCHANGED Rest

\* the success message; the command ends with exit status 0
command_success ==
    /\ stack # << >>
    /\ Top.fn \in Commands
    /\ Top.pc = "echo"
    /\ Return(<< >>)
    /\ UNCHANGED Page
    /\ UNCHANGED Rest

(***************************************************************************)
(* Timeouts of the waits that raise                                        *)
(***************************************************************************)
\* whether the condition of the wait frame f is in holds on the page now
WaitCondition(f) ==
    LET probe == get_lab_buttons_by_position
    IN  CASE f.fn = "create_lab" /\ f.pc = "wait"   -> probe[1] \in create_wait_states
          [] f.fn = "start_lab" /\ f.pc = "wait"    -> probe[2] \in start_wait_states
          [] f.fn = "stop_lab" /\ f.pc = "wait"     -> probe[2] \in stop_wait_states
          [] f.fn = "delete_lab" /\ f.pc = "wait"   -> probe[1] \in delete_wait_states
          [] f.fn = "delete_lab" /\ f.pc = "wait_create"     -> probe[1] = CREATE
          [] f.fn = "recreate_lab" /\ f.pc = "wait_create"   -> probe[1] = CREATE
          [] f.fn = "recreate_lab" /\ f.pc = "wait_creating" ->
                 probe[1] \in creating_wait_states
          [] f.fn = "recreate_lab" /\ f.pc = "wait_deleting" -> probe[1] = CREATE
          [] f.fn = "recreate_lab" /\ f.pc = "fb_wait"       -> probe[1] = CREATE
          [] OTHER -> TRUE

\* a variant in which a wait has no bound and goes on while its condition
\* does not hold
wait_without_timeout ==
    /\ stack # << >>
    /\ ~WaitCondition(Top)
    /\ UNCHANGED vars

\* a variant in which the timed-out wait is swallowed and the function returns
wait_timeout_swallowed ==
    /\ stack # << >>
    /\ ~WaitCondition(Top)
    /\ Return(<<Event("timeout", get_lab_buttons_by_position[1],
                      get_lab_buttons_by_position[2])>>)
    /\ UNCHANGED Page
    /\ UNCHANGED Rest

\* WebDriverWait.until raises TimeoutException when its condition has not
\* held for the whole bound
wait_timeout ==
    /\ stack # << >>
    /\ ~WaitCondition(Top)
    /\ Raise(<<Event("timeout", get_lab_buttons_by_position[1],
                     get_lab_buttons_by_position[2])>>)
    /\ UNCHANGED Page
    /\ UNCHANGED Rest

(***************************************************************************)
(* The page changes while the script runs                                  *)
(***************************************************************************)
\* the lab finishes a transient phase
LabProgress ==
    /\ stack # << >>
    /\ lab \in {"Creating", "Starting", "Stopping", "Deleting"}
    /\ lab' = CASE lab = "Creating" -> "Starting"
                [] lab = "Starting" -> "Running"
                [] lab = "Stopping" -> "Stopped"
                [] lab = "Deleting" -> "NoLab"
    /\ autostop_hours' = IF lab = "Deleting" THEN 0 ELSE autostop_hours
    /\ UNCHANGED <<rendered, pending, stack, outcome, log>>
    /\ UNCHANGED Rest

\* the page acts on a click it received
ApplyClick ==
    /\ stack # << >>
    /\ pending # "none"
    /\ pending' = "none"
    /\ \/ /\ pending = "create" /\ lab = "NoLab"
          /\ lab' = "Creating"
          /\ autostop_hours' \in 1..MaxHours
       \/ /\ pending = "start" /\ lab = "Stopped"
          /\ lab' = "Starting"
          /\ UNCHANGED autostop_hours
       \/ /\ pending = "stop" /\ lab = "Running"
          /\ lab' = "Stopping"
          /\ UNCHANGED autostop_hours
       \/ /\ pending = "delete" /\ lab \in {"Starting", "Running", "Stopped", "Stopping"}
          /\ lab' = "Deleting"
          /\ UNCHANGED autostop_hours
    /\ UNCHANGED <<rendered, stack, outcome, log>>
    /\ UNCHANGED Rest

\* one more button of the lab panel is rendered
Render ==
    /\ stack # << >>
    /\ rendered < 2
    /\ rendered' = rendered + 1
    /\ UNCHANGED <<lab, pending, autostop_hours, stack, outcome, log>>
    /\ UNCHANGED Rest

(***************************************************************************)
(* Specification                                                           *)
(***************************************************************************)
Next ==
    \/ \E op \in Operations : Call(op)
    \/ \E cmd \in Commands : Command(cmd)
    \/ command_operation
    \/ lab_start_check_lab_status
    \/ lab_start_recheck
    \/ lab_start_start
    \/ command_increase_autostop
    \/ command_increase_lifespan
    \/ command_success
    \/ select_lab_environment_tab
    \/ create_lab_probe
    \/ create_lab_wait
    \/ start_lab_probe
    \/ start_lab_else
    \/ start_lab_wait
    \/ stop_lab_probe
    \/ stop_lab_confirm
    \/ stop_lab_else
    \/ stop_lab_wait
    \/ delete_lab_probe
    \/ delete_lab_confirm
    \/ delete_lab_wait
    \/ delete_lab_reprobe
    \/ delete_lab_wait_create
    \/ delete_lab_else
    \/ increase_autostop
    \/ adjustment_click
    \/ adjustment_timeout
    \/ recreate_go_to_course
    \/ recreate_check_lab_status
    \/ recreate_wait_create
    \/ recreate_wait_creating
    \/ recreate_after_recursion
    \/ recreate_wait_deleting
    \/ recreate_fb_wait
    \/ recreate_fb_create
    \/ recreate_increase_autostop
    \/ recreate_increase_lifespan
    \/ recreate_finish
    \/ wait_timeout
    \/ LabProgress
    \/ ApplyClick
    \/ Render

Spec == Init /\ [][Next]_vars

(***************************************************************************)
(* The two adjustments applied repeatedly on one session, as by the lab     *)
(* commands run one after the other: the log is kept across the calls.     *)
(***************************************************************************)
\* applications of the pair increase_autostop, increase_lifespan
MaxApplications == 2

\* the calls of the two adjustments made so far
AdjustmentCalls ==
    {i \in DOMAIN log : log[i].ev \in {"increase_autostop", "increase_lifespan"}}

\* lab_mgr.increase_autostop(course_id), then lab_mgr.increase_lifespan(course_id)
apply_adjustment ==
    /\ stack = << >>
    /\ Cardinality(AdjustmentCalls) < 2 * MaxApplications
    /\ LET fn == IF Cardinality(AdjustmentCalls) % 2 = 0
                 THEN "increase_autostop" ELSE "increase_lifespan"
       IN  /\ stack' = <<Frame(fn)>>
           /\ log' = log \o <<Event(fn, None, None)>>
    /\ outcome' = "running"
    /\ UNCHANGED Page
    /\ UNCHANGED Rest

RepeatNext ==
    \/ apply_adjustment
    \/ increase_autostop
    \/ select_lab_environment_tab
    \/ adjustment_click
    \/ adjustment_timeout
    \/ LabProgress
    \/ Render

RepeatSpec == Init /\ [][RepeatNext]_vars

(***************************************************************************)
(* Interface detection and tab selection, step by step.  The lab           *)
(* operations above use select_lab_environment_tab by its two outcomes;    *)
(* this part follows it through the page.                                  *)
(***************************************************************************)
tnIndex          == <<"i","n","d","e","x">>
tnCourse         == <<"c","o","u","r","s","e">>
tnLabEnvironment == <<"l","a","b","-","e","n","v","i","r","o","n","m","e","n","t">>
tnCourseCapital  == <<"C","o","u","r","s","e">>
tnLab            == <<"l","a","b">>

\* the names callers pass, one of them capitalised and one not a tab name
TabNameInputs == {tnIndex, tnCourse, tnLabEnvironment, tnCourseCapital, tnLab}

\* the keys of the dict tab_selectors
tab_selector_keys == {tnIndex, tnCourse, tnLabEnvironment}

\* tab_selectors[key]
tab_selectors(key) ==
    CASE key = tnIndex          -> [old |-> "1", new |-> "Course"]
      [] key = tnCourse         -> [old |-> "2", new |-> "Course"]
      [] key = tnLabEnvironment -> [old |-> "8", new |-> "Lab Environment"]

\* a variant of the memo test that never finds a memoized value
memoized_never == FALSE

\* `if self._interface_type:`
memoized == interface_type # "None"

\* what a marker lookup can yield: it finds the marker only if the page
\* shows it, and it can fail (timeout or any other error) even then
MarkerLookup(interface) ==
    IF course_page.interface = interface /\ course_page.loaded
    THEN BOOLEAN ELSE {FALSE}

\* a variant that defaults to the old interface
detected_default_old(new_found, old_found) ==
    IF new_found THEN INTERFACE_NEW ELSE INTERFACE_OLD

\* the value the two nested try blocks leave in _interface_type
detected(new_found, old_found) ==
    IF new_found THEN INTERFACE_NEW
    ELSE IF old_found THEN INTERFACE_OLD
    ELSE INTERFACE_NEW

\* _detect_interface_type returns r to its caller
DetectReturns(r, inspected, new_marker, old_marker) ==
    /\ detections' = [detections EXCEPT !.prev = detections.returned,
                                        !.returned = r, !.ret = r,
                                        !.inspected = inspected,
                                        !.new_marker = new_marker,
                                        !.old_marker = old_marker,
                                        !.navigated = FALSE,
                                        !.after_navigation = detections.navigated]
    /\ selector' =
          IF selector.fn = "detect_interface_type"
          THEN [selector EXCEPT !.pc = "idle", !.interface = r, !.result = "returned"]
          ELSE [selector EXCEPT !.pc = "clickable", !.interface = r,
                                !.locator = tab_selectors(lower(selector.tab_name))[r]]

\* _detect_interface_type, the whole call
detect_interface_type ==
    /\ selector.pc = "detect"
    /\ IF memoized
       THEN /\ DetectReturns(interface_type, FALSE, "not looked", "not looked")
            /\ UNCHANGED interface_type
       ELSE \E new_found \in MarkerLookup(INTERFACE_NEW) :
            \E old_found \in (IF new_found THEN {FALSE} ELSE MarkerLookup(INTERFACE_OLD)) :
               /\ interface_type' = detected(new_found, old_found)
               /\ DetectReturns(detected(new_found, old_found), TRUE,
                                IF new_found THEN "found" ELSE "missing",
                                IF new_found THEN "not looked"
                                ELSE IF old_found THEN "found" ELSE "missing")
    /\ UNCHANGED <<course_page, LabVars, SnowVars, ToolVars>>

\* reset_interface_detection
reset_interface_detection ==
    /\ selector.pc = "idle"
    /\ interface_type' = "None"
    /\ detections' = [detections EXCEPT !.before_reset = detections.returned,
                                        !.returned = "None"]
    /\ UNCHANGED <<course_page, selector, LabVars, SnowVars, ToolVars>>

\* a caller other than the tab selector asks for the interface type
detect_call ==
    /\ selector.pc = "idle"
    /\ selector' = [SelectorIdle EXCEPT !.pc = "detect", !.fn = "detect_interface_type"]
    /\ UNCHANGED <<interface_type, course_page, detections, LabVars, SnowVars, ToolVars>>

\* select_lab_environment_tab up to the call of _detect_interface_type:
\* an unknown tab name raises ValueError
select_tab_call(tab_name) ==
    /\ selector.pc = "idle"
    /\ selector' =
          IF lower(tab_name) \in tab_selector_keys
          THEN [SelectorIdle EXCEPT !.pc = "detect", !.tab_name = tab_name,
                                    !.fn = "select_lab_environment_tab"]
          ELSE [SelectorIdle EXCEPT !.tab_name = tab_name, !.result = "ValueError",
                                    !.fn = "select_lab_environment_tab"]
    /\ UNCHANGED <<interface_type, course_page, detections, LabVars, SnowVars, ToolVars>>

\* EC.element_to_be_clickable on the tab locator of the chosen interface
TabClickable ==
    /\ course_page.interface = selector.interface
    /\ course_page.loaded

\* a variant of the wait after the click that does not read the attribute
aria_selected_unchecked == TRUE

\* `d.find_element(By.XPATH, tab_xpath).get_attribute("aria-selected") == "true"`
aria_selected ==
    /\ course_page.interface = selector.interface
    /\ course_page.selected = selector.locator

\* tab_element.click(): the tab becomes the selected one unless the page
\* ignores the click or the consent banner lies over the tab
ClickTab(pc) ==
    /\ course_page' = [course_page EXCEPT
                          !.selected = IF course_page.responsive /\ ~course_page.banner
                                       THEN selector.locator ELSE @]
    /\ selector' = [selector EXCEPT !.pc = pc, !.clicks = @ + 1, !.observed = FALSE]

\* the wait for aria-selected ends and the selector returns
TabSelected ==
    /\ selector' = [selector EXCEPT
                       !.pc = "idle", !.result = "returned",
                       !.observed = /\ course_page.interface = selector.interface
                                    /\ course_page.selected = selector.locator]
    /\ UNCHANGED course_page

\* "Could not select tab ..."
TabSelectionFailed ==
    /\ selector' = [selector EXCEPT !.pc = "idle", !.result = "raised"]
    /\ UNCHANGED course_page

\* _select_tab_new_interface
new_interface_click ==
    /\ selector.pc = "clickable" /\ selector.interface = INTERFACE_NEW
    /\ TabClickable
    /\ ClickTab("aria")
    /\ UNCHANGED <<interface_type, detections, LabVars, SnowVars, ToolVars>>

new_interface_selected ==
    /\ selector.pc = "aria" /\ selector.interface = INTERFACE_NEW
    /\ aria_selected
    /\ TabSelected
    /\ UNCHANGED <<interface_type, detections, LabVars, SnowVars, ToolVars>>

new_interface_timeout ==
    /\ selector.interface = INTERFACE_NEW
    /\ \/ selector.pc = "clickable" /\ ~TabClickable
       \/ selector.pc = "aria" /\ ~aria_selected
    /\ TabSelectionFailed
    /\ UNCHANGED <<interface_type, detections, LabVars, SnowVars, ToolVars>>

\* _select_tab_old_interface: the first attempt
old_interface_click ==
    /\ selector.pc = "clickable" /\ selector.interface = INTERFACE_OLD
    /\ TabClickable
    /\ ClickTab("aria")
    /\ UNCHANGED <<interface_type, detections, LabVars, SnowVars, ToolVars>>

old_interface_selected ==
    /\ selector.pc = "aria" /\ selector.interface = INTERFACE_OLD
    /\ aria_selected
    /\ TabSelected
    /\ UNCHANGED <<interface_type, detections, LabVars, SnowVars, ToolVars>>

\* `except TimeoutException:` starts the recovery
old_interface_timeout ==
    /\ selector.interface = INTERFACE_OLD
    /\ \/ selector.pc = "clickable" /\ ~TabClickable
       \/ selector.pc = "aria" /\ ~aria_selected
    /\ selector' = [selector EXCEPT !.pc = "recover"]
    /\ UNCHANGED <<interface_type, course_page, detections, LabVars, SnowVars, ToolVars>>

\* accept_trustarc_cookies: when the banner is found and agreed to, it goes
\* away and the page is refreshed; every error is swallowed
accept_trustarc_cookies ==
    /\ selector.pc = "recover"
    /\ \E agreed \in (IF course_page.banner THEN BOOLEAN ELSE {FALSE}) :
          course_page' = IF agreed
                         THEN [course_page EXCEPT !.banner = FALSE, !.selected = "none"]
                         ELSE course_page
    /\ selector' = [selector EXCEPT !.pc = "retry_clickable"]
    /\ UNCHANGED <<interface_type, detections, LabVars, SnowVars, ToolVars>>

\* the second attempt
old_retry_click ==
    /\ selector.pc = "retry_clickable"
    /\ TabClickable
    /\ ClickTab("retry_aria")
    /\ UNCHANGED <<interface_type, detections, LabVars, SnowVars, ToolVars>>

old_retry_selected ==
    /\ selector.pc = "retry_aria"
    /\ aria_selected
    /\ TabSelected
    /\ UNCHANGED <<interface_type, detections, LabVars, SnowVars, ToolVars>>

old_retry_failed ==
    /\ \/ selector.pc = "retry_clickable" /\ ~TabClickable
       \/ selector.pc = "retry_aria" /\ ~aria_selected
    /\ TabSelectionFailed
    /\ UNCHANGED <<interface_type, detections, LabVars, SnowVars, ToolVars>>

\* the content of the page arrives
page_loads ==
    /\ ~course_page.loaded
    /\ course_page' = [course_page EXCEPT !.loaded = TRUE]
    /\ UNCHANGED <<interface_type, selector, detections, LabVars, SnowVars, ToolVars>>

\* go_to_course: the session navigates to a course page; the memoized
\* interface type stays as it is
go_to_course ==
    /\ selector.pc = "idle"
    /\ course_page' \in CoursePages
    /\ detections' = [detections EXCEPT !.navigated = TRUE]
    /\ UNCHANGED <<interface_type, selector, LabVars, SnowVars, ToolVars>>

TabInit ==
    /\ interface_type = "None"
    /\ course_page \in CoursePages
    /\ selector = SelectorIdle
    /\ detections = NoDetections
    /\ lab = "NoLab"
    /\ rendered = 0
    /\ pending = "none"
    /\ autostop_hours = 0
    /\ stack = << >>
    /\ outcome = "idle"
    /\ log = << >>
    /\ assignment = NoAssignment
    /\ ToolsIdle

TabNext ==
    \/ \E tab_name \in TabNameInputs : select_tab_call(tab_name)
    \/ detect_call
    \/ detect_interface_type
    \/ reset_interface_detection
    \/ new_interface_click
    \/ new_interface_selected
    \/ new_interface_timeout
    \/ old_interface_click
    \/ old_interface_selected
    \/ old_interface_timeout
    \/ accept_trustarc_cookies
    \/ old_retry_click
    \/ old_retry_selected
    \/ old_retry_failed
    \/ page_loads
    \/ go_to_course

TabSpec == TabInit /\ [][TabNext]_vars

(***************************************************************************)
(* ServiceNow auto-assignment: one cycle of run_auto_assignment.           *)
(***************************************************************************)
\* unassigned tickets a cycle finds at most
MaxTickets == 2

\* the team keys callers pass: the configured teams and an unknown one
TeamKeys == {"t1", "t2", "gls-rhls-engagement-emea", "t3"}
teams == {"t1", "t2", "gls-rhls-engagement-emea"}

\* TeamConfig.frontend_shift_manager_url: read from the configuration for t1
\* and t2 (None when the option is missing), not set for the other teams
TeamUrls(team_key) ==
    IF team_key \in {"t1", "t2"} THEN {NoValue, "", "https://shift"} ELSE {NoValue}

\* the names the --assignee option and the shift manager can give
Names == {"Alice", "Bob"}

\* Python truthiness of an optional string
Truthy(x) == x \notin {NoValue, ""}

\* who_is_on_shift: the name of the round-robin or shift endpoint, the string
\* "None" when nobody is on shift, or None when a request fails (every
\* exception is caught); an empty URL makes every request fail
who_is_on_shift(url) ==
    IF url = "" THEN {NoValue} ELSE Names \cup {"None", NoValue}

\* run_auto_assignment up to the loop over the tickets
run_auto_assignment(team_key, url, assignee_name) ==
    /\ assignment.pc = "idle"
    /\ LET call == [NoAssignment EXCEPT !.team_key = team_key, !.url = url,
                                        !.requested = assignee_name]
       IN  IF team_key \notin teams
           THEN assignment' = [call EXCEPT !.result = "ValueError"]
           ELSE \E on_shift \in who_is_on_shift(url), found \in 0..MaxTickets :
                  LET name == IF url # NoValue THEN on_shift ELSE assignee_name
                  IN  IF ~Truthy(name) /\ Truthy(url)
                      THEN assignment' = [call EXCEPT !.assignee_name = name,
                                                      !.result = "stats"]
                      ELSE assignment' =
                             [call EXCEPT !.assignee_name =
                                              IF ~Truthy(name) THEN "only-ack" ELSE name,
                                          !.tickets = found, !.pc = "tickets"]
    /\ UNCHANGED <<LabVars, TabVars, ToolVars>>

\* Python's `"t1" in team_key` for the configured team keys
KeyContains(team_key, part) ==
    CASE part = "t1"  -> team_key = "t1"
      [] part = "t2"  -> team_key = "t2"
      [] part = "gls-rhls-engagement" -> team_key = "gls-rhls-engagement-emea"

\* one iteration of the loop: the ticket is processed for its team; nobody
\* on shift ends the loop for t1 and t2; the gls teams only acknowledge
process_ticket ==
    /\ assignment.pc = "tickets"
    /\ assignment.tickets > 0
    /\ LET a == assignment
           stops == /\ KeyContains(a.team_key, "t1") \/ KeyContains(a.team_key, "t2")
                    /\ a.assignee_name = "None"
           assigns == ~KeyContains(a.team_key, "gls-rhls-engagement")
       IN  IF stops
           THEN assignment' = [a EXCEPT !.tickets = 0]
           ELSE \E success \in BOOLEAN :
                  assignment' =
                    [a EXCEPT !.tickets = @ - 1,
                              !.assigned_to = IF success /\ assigns
                                              THEN Append(@, a.assignee_name) ELSE @,
                              !.stats.assigned = IF success THEN @ + 1 ELSE @,
                              !.stats.errors = IF success THEN @ ELSE @ + 1]
    /\ UNCHANGED <<LabVars, TabVars, ToolVars>>

\* return stats
assignment_returns ==
    /\ assignment.pc = "tickets"
    /\ assignment.tickets = 0
    /\ assignment' = [assignment EXCEPT !.pc = "idle", !.result = "stats"]
    /\ UNCHANGED <<LabVars, TabVars, ToolVars>>

SnowInit ==
    /\ assignment = NoAssignment
    /\ lab = "NoLab"
    /\ rendered = 0
    /\ pending = "none"
    /\ autostop_hours = 0
    /\ stack = << >>
    /\ outcome = "idle"
    /\ log = << >>
    /\ interface_type = "None"
    /\ course_page = [interface |-> INTERFACE_NEW, loaded |-> TRUE, banner |-> FALSE,
                      responsive |-> TRUE, selected |-> "none"]
    /\ selector = SelectorIdle
    /\ detections = NoDetections
    /\ ToolsIdle

SnowNext ==
    \/ \E team_key \in TeamKeys, assignee_name \in Names \cup {NoValue} :
          \E url \in TeamUrls(team_key) : run_auto_assignment(team_key, url, assignee_name)
    \/ process_ticket
    \/ assignment_returns

SnowSpec == SnowInit /\ [][SnowNext]_vars

(***************************************************************************)
(* QA report (core/qa_report.py): the exercise list and its upsert.        *)
(***************************************************************************)
\* exercises a qa_data.json of an earlier run holds at most
MaxLoaded == 2
\* add_exercise calls stop once the list is this long
MaxExercises == 4

\* ExerciseResult, by the two fields the report keys and grades on
ExerciseResults ==
    [chapter_section : {"ch01s01", "ch01s02", "ch02s01"}, grade_result : {"PASS", "FAIL"}]

\* the lists _load_json can restore: it appends every entry of the file
LoadedLists ==
    UNION {[1..n -> ExerciseResults] : n \in 0..MaxLoaded}

\* a variant that appends every result
add_exercise_appends(list, result) == Append(list, result)

\* add_exercise: the first entry with the result's chapter_section is
\* replaced and the function returns; without one the result is appended
add_exercise(list, result) ==
    LET matches == {i \in 1..Len(list) : list[i].chapter_section = result.chapter_section}
    IN  IF matches # {}
        THEN [list EXCEPT ![CHOOSE i \in matches : \A j \in matches : i <= j] = result]
        ELSE Append(list, result)

\* report.add_exercise(result)
add_exercise_call(result) ==
    /\ Len(exercises) < MaxExercises
    /\ exercises' = add_exercise(exercises, result)
    /\ upsert' = [upsert EXCEPT !.prev = exercises, !.result = <<result>>]
    /\ UNCHANGED QARest

\* QAReport(...): an empty list, then _load_json
QAInit ==
    /\ exercises \in LoadedLists
    /\ upsert = [NoUpsert EXCEPT !.loaded = exercises]
    /\ SessionIdle
    /\ TicketIdle
    /\ RetryIdle
    /\ CheckIdle
    /\ StartIdle

QANext == \E result \in ExerciseResults : add_exercise_call(result)

QASpec == QAInit /\ [][QANext]_vars

(***************************************************************************)
(* Ticket processing (core/servicenow_handler.py): process_t1_ticket and   *)
(* process_t2_ticket, one call at a time.                                  *)
(***************************************************************************)
\* the tickets the queue hands over: the fields process_t1_ticket tests,
\* and whether the record carries its sys_id and number
Tickets ==
    [sys_id : BOOLEAN,
     short_description : {"", "Question", "[training-feedback] DO180"},
     u_email_from_address : {"", "student@example.com", "x@iqlaserpress.net"}]

\* lookup_user_sys_id: a sys_id, an empty one, None, or it raises
sys_id_lookups == {"sys-1", "", NoValue, "raises"}

\* the fields of the categorization and acknowledgement update
phase1_updates(fn, ticket, has_group) ==
    IF fn = "process_t1_ticket"
    THEN {"state", "category", "time_worked"}
         \cup (IF has_group THEN {"assignment_group"} ELSE {})
         \cup (IF ticket.short_description = "" THEN {"short_description"} ELSE {})
         \cup (IF ticket.u_email_from_address \in {"", "x@iqlaserpress.net"}
               THEN {"u_email_from_address"} ELSE {})
         \cup (IF ticket.u_email_from_address = "x@iqlaserpress.net"
               THEN {"contact_source"} ELSE {})
         \cup (IF ticket.short_description # "[training-feedback] DO180"
               THEN {"comments"} ELSE {})
    ELSE {"state", "category", "subcategory", "issue", "time_worked", "comments"}
         \cup (IF has_group THEN {"assignment_group"} ELSE {})

\* the fields of the assignment update
phase2_updates == {"assigned_to"}

\* process_t1_ticket(ticket, ...) or process_t2_ticket(ticket, ...) is called
process_ticket_call(fn, ticket, has_group) ==
    /\ processing.pc = "idle"
    /\ processing' = [NoProcessing EXCEPT !.pc = "lookup", !.fn = fn, !.ticket = ticket,
                                          !.has_group = has_group]
    /\ UNCHANGED TicketRest

\* the lookup of the assignee; `if not assignee_sys_id: return False`, and
\* an exception is caught by the function's `except Exception: return False`
lookup_assignee ==
    /\ processing.pc = "lookup"
    /\ \E found \in sys_id_lookups :
          processing' =
            IF found = "raises" \/ ~Truthy(found)
            THEN [processing EXCEPT !.pc = "idle", !.result = "False",
                                    !.assignee_sys_id = IF found = "raises" THEN NoValue
                                                        ELSE found]
            ELSE [processing EXCEPT !.pc = "phase1", !.assignee_sys_id = found]
    /\ UNCHANGED TicketRest

\* what one update_ticket call can come to: the PATCH succeeds, or a
\* RequestException is caught and False returned
update_ticket == BOOLEAN

\* a variant that goes on to the assignment whatever phase 1 came to
phase1_update_unchecked ==
    /\ processing.pc = "phase1"
    /\ \E ok \in update_ticket :
          processing' =
            IF ~processing.ticket.sys_id
            THEN [processing EXCEPT !.pc = "idle", !.result = "False"]
            ELSE [processing EXCEPT
                     !.sent = Append(@, [fields |-> phase1_updates(processing.fn,
                                             processing.ticket, processing.has_group),
                                         ok |-> ok]),
                     !.pc = "phase2"]
    /\ UNCHANGED TicketRest

\* PHASE 1: the update is built and sent; a ticket without 'sys_id' raises
\* KeyError before anything is sent, which is caught
phase1_update ==
    /\ processing.pc = "phase1"
    /\ \E ok \in update_ticket :
          processing' =
            IF ~processing.ticket.sys_id
            THEN [processing EXCEPT !.pc = "idle", !.result = "False"]
            ELSE [processing EXCEPT
                     !.sent = Append(@, [fields |-> phase1_updates(processing.fn,
                                             processing.ticket, processing.has_group),
                                         ok |-> ok]),
                     !.pc = IF ok THEN "phase2" ELSE "idle",
                     !.result = IF ok THEN @ ELSE "False"]
    /\ UNCHANGED TicketRest

\* PHASE 2: the assignment is sent, and the function returns what it came to
phase2_update ==
    /\ processing.pc = "phase2"
    /\ \E ok \in update_ticket :
          processing' =
            [processing EXCEPT !.sent = Append(@, [fields |-> phase2_updates, ok |-> ok]),
                               !.pc = "idle",
                               !.result = IF ok THEN "True" ELSE "False"]
    /\ UNCHANGED TicketRest

TicketInit ==
    /\ processing = NoProcessing
    /\ SessionIdle
    /\ QAIdle
    /\ RetryIdle
    /\ CheckIdle
    /\ StartIdle

TicketNext ==
    \/ \E fn \in {"process_t1_ticket", "process_t2_ticket"}, ticket \in Tickets,
          has_group \in BOOLEAN : process_ticket_call(fn, ticket, has_group)
    \/ lookup_assignee
    \/ phase1_update
    \/ phase2_update

TicketSpec == TicketInit /\ [][TicketNext]_vars

(***************************************************************************)
(* Link checker (core/link_checker.py): retry_failed_links over the        *)
(* reports earlier check_course_links calls left in self.reports.          *)
(***************************************************************************)
\* reports in self.reports, and results in one report, at most
MaxReports == 2
MaxResults == 2

\* LinkCheckResult, by its link and its validity
LinkCheckResults == [url : {"u1", "u2"}, is_valid : BOOLEAN]

\* the positions of the invalid results of a list, in list order:
\* `[r for r in report.results if not r.is_valid]`
RECURSIVE InvalidFrom(_, _)
InvalidFrom(results, i) ==
    IF i > Len(results) THEN << >>
    ELSE (IF results[i].is_valid THEN << >> ELSE <<i>>) \o InvalidFrom(results, i + 1)

\* CourseCheckReport as check_course_links leaves it: every appended result
\* was counted as valid or as broken
CourseCheckReport(results) ==
    [results |-> results,
     valid_links |-> Len(results) - Len(InvalidFrom(results, 1)),
     broken_links |-> Len(InvalidFrom(results, 1))]

CourseCheckReports ==
    {CourseCheckReport(results) :
        results \in UNION {[1..n -> LinkCheckResults] : n \in 0..MaxResults}}

\* sum(r.broken_links for r in self.reports)
RECURSIVE total_failed(_)
total_failed(rs) ==
    IF rs = << >> THEN 0 ELSE Head(rs).broken_links + total_failed(Tail(rs))

\* retry_failed_links up to its loop: nothing to retry returns 0
retry_failed_links ==
    /\ retry.pc = "idle"
    /\ retry' = IF total_failed(reports) = 0
                THEN [NoRetry EXCEPT !.start = reports, !.returned = TRUE, !.result = 0]
                ELSE [NoRetry EXCEPT !.start = reports, !.pc = "report", !.report = 1]
    /\ UNCHANGED reports
    /\ UNCHANGED RetryRest

\* `for report in self.reports`: the failed results of the next report are
\* collected, a report without any is skipped, and after the last report
\* fixed_count is returned
retry_report ==
    /\ retry.pc = "report"
    /\ IF retry.report > Len(reports)
       THEN retry' = [retry EXCEPT !.pc = "idle", !.returned = TRUE,
                                   !.result = retry.fixed_count]
       ELSE LET failed_results == InvalidFrom(reports[retry.report].results, 1)
            IN  IF failed_results = << >>
                THEN retry' = [retry EXCEPT !.report = @ + 1]
                ELSE retry' = [retry EXCEPT !.pc = "result",
                                            !.failed_results = failed_results]
    /\ UNCHANGED reports
    /\ UNCHANGED RetryRest

\* what a fresh validation of a link can come to
new_result == BOOLEAN

\* a variant that leaves the counters of the report as they are
retry_result_keeps_counters ==
    /\ retry.pc = "result"
    /\ \E is_valid \in new_result :
          LET r == retry.report
              i == Head(retry.failed_results)
              left == Tail(retry.failed_results)
          IN  /\ reports' = [reports EXCEPT ![r].results[i].is_valid = is_valid]
              /\ retry' = [retry EXCEPT
                              !.failed_results = left,
                              !.revalidated = @ \cup {<<r, i>>},
                              !.fixed_count = IF is_valid THEN @ + 1 ELSE @,
                              !.pc = IF left = << >> THEN "report" ELSE "result",
                              !.report = IF left = << >> THEN @ + 1 ELSE @]
    /\ UNCHANGED RetryRest

\* `for result in failed_results`: the link is validated again, the result
\* updated in place, and a result that is valid now moves one count from
\* broken_links to valid_links
retry_result ==
    /\ retry.pc = "result"
    /\ \E is_valid \in new_result :
          LET r == retry.report
              i == Head(retry.failed_results)
              left == Tail(retry.failed_results)
          IN  /\ reports' =
                    [reports EXCEPT
                        ![r].results[i].is_valid = is_valid,
                        ![r].broken_links = IF is_valid THEN @ - 1 ELSE @,
                        ![r].valid_links = IF is_valid THEN @ + 1 ELSE @]
              /\ retry' = [retry EXCEPT
                              !.failed_results = left,
                              !.revalidated = @ \cup {<<r, i>>},
                              !.fixed_count = IF is_valid THEN @ + 1 ELSE @,
                              !.pc = IF left = << >> THEN "report" ELSE "result",
                              !.report = IF left = << >> THEN @ + 1 ELSE @]
    /\ UNCHANGED RetryRest

RetryInit ==
    /\ reports \in UNION {[1..n -> CourseCheckReports] : n \in 0..MaxReports}
    /\ retry = NoRetry
    /\ SessionIdle
    /\ QAIdle
    /\ TicketIdle
    /\ CheckIdle
    /\ StartIdle

RetryNext ==
    \/ retry_failed_links
    \/ retry_report
    \/ retry_result

RetrySpec == RetryInit /\ [][RetryNext]_vars

(***************************************************************************)
(* Link checker: the parallel path of check_course_links for the links of  *)
(* one section.  The submitting thread and the workers of the pool are     *)
(* interleaved step by step.                                               *)
(***************************************************************************)
\* links of the section, and threads of the pool (the program has ten)
MaxLinks == 3
MaxWorkers == 2

\* the futures whose worker is running
Running == {i \in DOMAIN checking.futures : checking.futures[i] = "running"}

\* the futures whose call has ended, by a result or by an exception
Completed ==
    {i \in DOMAIN checking.futures : checking.futures[i] \in {"valid", "invalid", "raised"}}

\* `if use_linkchecker and links_to_check`: every link is submitted to the
\* executor, which queues it
submit_links(n) ==
    /\ checking.pc = "idle"
    /\ checking' = [NoChecking EXCEPT !.pc = "as_completed",
                                      !.futures = [i \in 1..n |-> "pending"]]
    /\ UNCHANGED CheckRest

\* a free thread of the pool takes a queued call
worker_starts(i) ==
    /\ i \in DOMAIN checking.futures
    /\ checking.futures[i] = "pending"
    /\ Cardinality(Running) < MaxWorkers
    /\ checking' = [checking EXCEPT !.futures[i] = "running"]
    /\ UNCHANGED CheckRest

\* a variant in which the worker counts its result in the report itself
worker_returns_counting(i) ==
    /\ i \in DOMAIN checking.futures
    /\ checking.futures[i] = "running"
    /\ \E outcome_i \in {"valid", "invalid", "raised"} :
          checking' = [checking EXCEPT
                          !.futures[i] = outcome_i,
                          !.report.valid_links = IF outcome_i = "valid" THEN @ + 1 ELSE @,
                          !.report.broken_links = IF outcome_i = "valid" THEN @ ELSE @ + 1]
    /\ UNCHANGED CheckRest

\* _validate_link_with_linkchecker in a worker: it builds its own result,
\* valid or not, or raises; it touches nothing shared
worker_returns(i) ==
    /\ i \in DOMAIN checking.futures
    /\ checking.futures[i] = "running"
    /\ \E outcome_i \in {"valid", "invalid", "raised"} :
          checking' = [checking EXCEPT !.futures[i] = outcome_i]
    /\ UNCHANGED CheckRest

\* future.result() in the submitting thread, an exception of the worker
\* replaced by an invalid "Thread error" result
future_result(i) ==
    [link |-> i,
     is_valid |-> checking.futures[i] = "valid",
     error_message |-> IF checking.futures[i] = "raised" THEN "Thread error" ELSE ""]

\* `for future in as_completed(future_to_link)`: the next completed future
\* is taken and its result appended to report.results
as_completed ==
    /\ checking.pc = "as_completed"
    /\ \E i \in Completed \ checking.collected :
          checking' = [checking EXCEPT
                          !.report.results = Append(@, future_result(i)),
                          !.collected = @ \cup {i},
                          !.future = i,
                          !.pc = "count"]
    /\ UNCHANGED CheckRest

\* `if result.is_valid: report.valid_links += 1 else: report.broken_links += 1`
count_result ==
    /\ checking.pc = "count"
    /\ LET result == checking.report.results[Len(checking.report.results)]
       IN  checking' = [checking EXCEPT
                           !.report.valid_links = IF result.is_valid THEN @ + 1 ELSE @,
                           !.report.broken_links = IF result.is_valid THEN @ ELSE @ + 1,
                           !.pc = "as_completed"]
    /\ UNCHANGED CheckRest

\* every future was collected: the executor is left and the section is done
section_checked ==
    /\ checking.pc = "as_completed"
    /\ checking.collected = DOMAIN checking.futures
    /\ checking' = [checking EXCEPT !.pc = "checked"]
    /\ UNCHANGED CheckRest

CheckInit ==
    /\ checking = NoChecking
    /\ SessionIdle
    /\ QAIdle
    /\ TicketIdle
    /\ RetryIdle
    /\ StartIdle

CheckNext ==
    \/ \E n \in 1..MaxLinks : submit_links(n)
    \/ \E i \in 1..MaxLinks : worker_starts(i)
    \/ \E i \in 1..MaxLinks : worker_returns(i)
    \/ as_completed
    \/ count_result
    \/ section_checked

CheckSpec == CheckInit /\ [][CheckNext]_vars

(***************************************************************************)
(* recreate_lab against a lab that other sessions act on too, with the     *)
(* script's steps taken fairly.                                            *)
(***************************************************************************)
\* the lab is changed from outside the session: another session of the
\* account, or the platform, creates, starts, stops or deletes it; the
\* script meets the change when it loads the course page again
LabChanges ==
    /\ At("recreate_lab", "go_to_course")
    /\ \E l \in LabStates \ {lab} :
          /\ lab' = l
          /\ autostop_hours' = IF l \in {"NoLab", "Deleting"} THEN 0
                               ELSE IF autostop_hours = 0 THEN 1 ELSE autostop_hours
    /\ UNCHANGED <<rendered, pending, stack, outcome, log>>
    /\ UNCHANGED Rest

\* `self.recreate_lab(course_id, environment)` at the deepest level the
\* interpreter allows: the call raises RecursionError
recreate_at_recursion_limit ==
    /\ At("recreate_lab", "wait_creating")
    /\ get_lab_buttons_by_position[1] \in creating_wait_states
    /\ Depth(stack) = MaxDepth
    /\ Raise(<<Event("recreate_lab.wait", get_lab_buttons_by_position[1], None),
               Event("RecursionError", None, None)>>)
    /\ UNCHANGED Page
    /\ UNCHANGED Rest

\* the steps of the script: every one of them ends, a wait by its condition
\* or by its timeout
ScriptStep ==
    \/ select_lab_environment_tab
    \/ create_lab_probe
    \/ create_lab_wait
    \/ delete_lab_probe
    \/ delete_lab_confirm
    \/ delete_lab_wait
    \/ delete_lab_reprobe
    \/ delete_lab_wait_create
    \/ delete_lab_else
    \/ increase_autostop
    \/ adjustment_click
    \/ adjustment_timeout
    \/ recreate_go_to_course
    \/ recreate_check_lab_status
    \/ recreate_wait_create
    \/ recreate_wait_creating
    \/ recreate_at_recursion_limit
    \/ recreate_after_recursion
    \/ recreate_wait_deleting
    \/ recreate_fb_wait
    \/ recreate_fb_create
    \/ recreate_increase_autostop
    \/ recreate_increase_lifespan
    \/ recreate_finish
    \/ wait_timeout

LiveNext ==
    \/ Call("recreate_lab")
    \/ ScriptStep
    \/ LabChanges
    \/ LabProgress
    \/ ApplyClick
    \/ Render

LiveSpec == Init /\ [][LiveNext]_vars /\ WF_vars(ScriptStep)

(***************************************************************************)
(* The two start sequences, the CLI command `lab start` and                *)
(* SnowAIProcessor.start_lab_for_course, run on the same probe results.    *)
(***************************************************************************)
\* what a probe reports of a lab in state l with r of its buttons rendered
StatusOf(l, r) ==
    LET buttons == SubSeq(Buttons(l), 1, Min(r, Len(Buttons(l))))
    IN  << IF Len(buttons) >= 1 THEN ButtonText(buttons[1]) ELSE None,
           IF Len(buttons) >= 2 THEN ButtonText(buttons[2]) ELSE None >>

\* the results check_lab_status can give
ProbeResults == {StatusOf(l, r) : l \in LabStates, r \in 0..2}

\* `primary_status, secondary_status = check_lab_status()`, the first probe
first_probe(fn) ==
    /\ starting[fn].pc = "check_lab_status"
    /\ starting' = [starting EXCEPT ![fn].primary_status = <<starting.probes[1][1]>>,
                                    ![fn].secondary_status = <<starting.probes[1][2]>>,
                                    ![fn].pc = "create_lab"]
    /\ UNCHANGED StartRest

\* `if primary_status == "CREATE"`: create_lab and a second probe, of which
\* keep_secondary tells whether its secondary status is dropped
create_and_probe(fn, keep_secondary) ==
    /\ starting[fn].pc = "create_lab"
    /\ IF starting[fn].primary_status = <<CREATE>>
       THEN starting' =
              [starting EXCEPT
                 ![fn].calls = Append(@, "create_lab"),
                 ![fn].primary_status = <<starting.probes[2][1]>>,
                 ![fn].secondary_status =
                     IF keep_secondary THEN @ ELSE <<starting.probes[2][2]>>,
                 ![fn].pc = "start_lab"]
       ELSE starting' = [starting EXCEPT ![fn].pc = "start_lab"]
    /\ UNCHANGED StartRest

\* start_lab is called if the condition of the sequence holds
start_if(fn, condition) ==
    /\ starting[fn].pc = "start_lab"
    /\ starting' = [starting EXCEPT
                       ![fn].calls = IF condition THEN Append(@, "start_lab") ELSE @,
                       ![fn].pc = "done"]
    /\ UNCHANGED StartRest

\* main.py, lab start: `primary_status, _ = lab_mgr.check_lab_status()` after
\* create_lab, then `if secondary_status == "START"`
start ==
    \/ first_probe("start")
    \/ create_and_probe("start", TRUE)
    \/ start_if("start", starting.start.secondary_status = <<START>>)

\* start_lab_for_course: both statuses are probed again after create_lab,
\* then `if primary_status == "START" or secondary_status == "START"`
start_lab_for_course ==
    \/ first_probe("start_lab_for_course")
    \/ create_and_probe("start_lab_for_course", FALSE)
    \/ start_if("start_lab_for_course",
                \/ starting.start_lab_for_course.primary_status = <<START>>
                \/ starting.start_lab_for_course.secondary_status = <<START>>)

\* both sequences are about to run on the same two probe results
StartInit ==
    /\ \E first \in ProbeResults, second \in ProbeResults :
          starting = [NoStarting EXCEPT !.probes = <<first, second>>]
    /\ SessionIdle
    /\ QAIdle
    /\ TicketIdle
    /\ RetryIdle
    /\ CheckIdle

StartNext ==
    \/ start
    \/ start_lab_for_course

StartSpec == StartInit /\ [][StartNext]_vars

(***************************************************************************)
(* Properties                                                              *)
(***************************************************************************)
\* the button pair the lab shows once fully rendered
primary_status   == ButtonText(Buttons(lab)[1])
secondary_status == IF Len(Buttons(lab)) >= 2 THEN ButtonText(Buttons(lab)[2]) ELSE None

\* the outermost call is `op`
Called(op) == log # << >> /\ log[1].ev = op
Returned(op) == Called(op) /\ outcome = "returned"

Positions(ev) == {i \in DOMAIN log : log[i].ev = ev}

\* the probe of a recreate_lab invocation
RecreateProbes == Positions("check_lab_status")

\* the entry after the probe at i: the operation returned right away
ReturnsAfter(i, fn) ==
    \/ i = Len(log) /\ At(fn, "else")
    \/ i < Len(log) /\ log[i + 1].ev = fn \o ".return"

\* C1: whenever recreate_lab returns without raising, the lab's primary
\* status at that moment is neither CREATING nor DELETING.
C1_ReturnsInStableState ==
    Returned("recreate_lab") => primary_status \notin {CREATING, DELETING}

\* C2: whenever the first button's text at create_lab's probe is anything
\* but exactly CREATE (no button included), create_lab clicks nothing, waits
\* for no transition and returns without raising: the probe is followed at
\* once by create_lab's normal return.
C2_CreateNoOpUnlessCreate ==
    \A i \in Positions("create_lab.probe") :
        log[i].first # CREATE =>
            i < Len(log) /\ log[i + 1].ev = "create_lab.return"

C2_Witness ==
    /\ Returned("create_lab")
    /\ \E i \in Positions("create_lab.probe") :
          log[i].first = CREATING /\ log[i + 1].ev = "create_lab.return"

\* C3: whenever start_lab reads the second button as STARTING, STOP or
\* STOPPING, it clicks nothing and returns normally: nothing but start_lab's
\* normal return follows the probe.
C3_StartNoOpWhenRunning ==
    \A i \in Positions("start_lab.probe") :
        log[i].second \in {STARTING, STOP, STOPPING} => ReturnsAfter(i, "start_lab")

C3_Witness ==
    \E i \in Positions("start_lab.probe") :
        /\ log[i].second = STARTING
        /\ i < Len(log) /\ log[i + 1].ev = "start_lab.return"
        /\ outcome = "returned"

\* C4: when recreate_lab probed (CREATE, no secondary) and returns without
\* raising, the lab is in state (DELETE, STOP) or (DELETE, STARTING).
C4_RecreateFromCreateEndsStarted ==
    ( /\ Returned("recreate_lab")
      /\ \E i \in RecreateProbes :
            log[i].d = 1 /\ log[i].first = CREATE /\ log[i].second = None )
    => ( /\ primary_status = DELETE
         /\ secondary_status \in {STOP, STARTING} )

\* C5: in every recreate_lab call that returns without raising,
\* increase_autostop and increase_lifespan are each invoked exactly once,
\* autostop before lifespan, and both after the last create_lab call.
C5_AdjustmentsExactlyOnce ==
    Returned("recreate_lab") =>
        /\ Cardinality(Positions("increase_autostop")) = 1
        /\ Cardinality(Positions("increase_lifespan")) = 1
        /\ \A a \in Positions("increase_autostop"), l \in Positions("increase_lifespan") :
              /\ a < l
              /\ \A c \in Positions("create_lab") : c < a

C5_Witness ==
    /\ Returned("recreate_lab")
    /\ \E r \in Positions("recreate_lab") : log[r].d = 2
    /\ Positions("create_lab") # {}

\* C6: when recreate_lab probed (DELETE, START), it calls delete_lab right
\* after the probe, calls create_lab only after a wait that observed CREATE
\* after that delete_lab call, does call create_lab before it returns, and
\* never calls start_lab or clicks Start.
C6_StoppedLabDeleteWaitCreate ==
    ( /\ Called("recreate_lab")
      /\ \E i \in RecreateProbes :
            log[i].d = 1 /\ log[i].first = DELETE /\ log[i].second = START )
    => /\ \A i \in RecreateProbes : i < Len(log) /\ log[i + 1].ev = "delete_lab"
       /\ \A c \in Positions("create_lab") :
             \E w \in Positions("recreate_lab.wait"), x \in Positions("delete_lab") :
                 x < w /\ w < c /\ log[w].first = CREATE
       /\ outcome = "returned" => Positions("create_lab") # {}
       /\ Positions("start_lab") = {}
       /\ Positions("start_lab.click") = {}

C6_Witness ==
    /\ Returned("recreate_lab")
    /\ \E i \in RecreateProbes :
          log[i].d = 1 /\ log[i].first = DELETE /\ log[i].second = START
    /\ Positions("create_lab.click") # {}

\* C7: when a recreate_lab invocation probes primary CREATING, no create_lab
\* or delete_lab call follows before a wait of that invocation has observed
\* DELETE or CREATE; that wait is followed by a new recreate_lab invocation
\* that navigates and probes afresh; and the probing invocation itself
\* invokes neither increase_autostop nor increase_lifespan.
C7_CreatingWaitsThenRedispatches ==
    \A i \in RecreateProbes :
        log[i].first = CREATING =>
            /\ \A c \in Positions("create_lab") \cup Positions("delete_lab") :
                  c > i => \E w \in Positions("recreate_lab.wait") :
                               /\ i < w /\ w < c
                               /\ log[w].d = log[i].d
                               /\ log[w].first \in {DELETE, CREATE}
            /\ \A w \in Positions("recreate_lab.wait") :
                  log[w].d = log[i].d =>
                      /\ w = i + 1
                      /\ log[w + 1].ev = "recreate_lab" /\ log[w + 1].d = log[i].d + 1
                      /\ w + 2 <= Len(log) => log[w + 2].ev = "go_to_course"
                      /\ w + 3 <= Len(log) =>
                            log[w + 3].ev \in {"check_lab_status", "recreate_lab.tab_failed"}
            /\ \A a \in Positions("increase_autostop") \cup Positions("increase_lifespan") :
                  log[a].d # log[i].d

C7_Witness ==
    /\ Returned("recreate_lab")
    /\ \E i \in RecreateProbes :
          /\ log[i].d = 1 /\ log[i].first = CREATING /\ log[i].second = STARTING
    /\ \E a \in Positions("increase_lifespan") : log[a].d = 2
    /\ Positions("delete_lab.click") # {}

\* C8 as claimed: once recreate_lab has taken the unknown-state fallback it
\* completes without raising.
C8_FallbackNeverRaises ==
    (Called("recreate_lab") /\ Positions("fallback") # {}) => outcome # "raised"

\* C8 as amended: a probe whose primary is none of CREATE, DELETE, CREATING,
\* DELETING takes the fallback, which calls delete_lab at once; whatever
\* delete_lab or the wait after it raises is caught, so that recreate_lab
\* raises from the fallback only out of create_lab or out of a
\* post-provisioning adjustment, after create_lab has been called.
C8_FallbackCatchesDeletePhase ==
    /\ \A i \in RecreateProbes :
          log[i].first \notin {CREATE, DELETE, CREATING, DELETING} =>
              /\ log[i + 1].ev = "fallback"
              /\ log[i + 2].ev = "delete_lab"
    /\ \A i \in Positions("fallback") :
          outcome = "raised" =>
              /\ \E c \in Positions("create_lab") : c > i
              /\ log[Len(log)].ev \in
                    {"create_lab.raise", "increase_autostop.raise", "increase_lifespan.raise"}

C8_Witness ==
    /\ Returned("recreate_lab")
    /\ \E i \in RecreateProbes : log[i].first = None /\ log[i].second = None
    /\ \E i \in Positions("fallback"), r \in Positions("delete_lab.raise") : i < r

C10_StopDeleteOnlyOnExactText ==
    /\ \A i \in Positions("stop_lab.click") :
          log[i - 1].ev = "stop_lab.probe" /\ log[i - 1].second = STOP
    /\ \A i \in Positions("stop_lab.confirm") : log[i - 1].ev = "stop_lab.click"
    /\ \A i \in Positions("delete_lab.click") :
          log[i - 1].ev = "delete_lab.probe" /\ log[i - 1].first = DELETE
    /\ \A i \in Positions("delete_lab.confirm") : log[i - 1].ev = "delete_lab.click"
    /\ \A i \in Positions("stop_lab.probe") :
          log[i].second # STOP => ReturnsAfter(i, "stop_lab")
    /\ \A i \in Positions("delete_lab.probe") :
          log[i].first # DELETE => ReturnsAfter(i, "delete_lab")

C10_Witness ==
    /\ Returned("stop_lab")
    /\ \E i \in Positions("stop_lab.probe") : log[i].second = STOPPING

\* the entries an operation writes once its button is clicked or it ends
AfterClick(fn) ==
    {fn \o ".probe", fn \o ".click", fn \o ".confirm", fn \o ".wait", fn \o ".return"}

ActionOperations == {"create_lab", "start_lab", "stop_lab", "delete_lab"}

\* C11: in create_lab, start_lab, stop_lab and delete_lab a wait that exceeds
\* its bound after the click makes the operation raise to its caller: the
\* timeout is followed at once by the operation's raise, and the operation
\* neither returns nor probes, clicks or waits again
C11_TimeoutAfterClickRaises ==
    \A i \in Positions("timeout") :
        /\ i < Len(log)
        /\ log[i + 1].ev \in {fn \o ".raise" : fn \in ActionOperations \cup {"recreate_lab"}}
        /\ \A fn \in ActionOperations :
              log[i + 1].ev = fn \o ".raise" =>
                  \A j \in (i + 2)..Len(log) : log[j].ev \notin AfterClick(fn)

\* stop_lab was called, clicked STOP and confirmed, the wait for STOPPING or
\* START timed out, and the call ended with the exception
C11_Witness ==
    /\ Called("stop_lab")
    /\ outcome = "raised"
    /\ \E i \in Positions("timeout") :
          /\ i > 1 /\ log[i - 1].ev = "stop_lab.confirm"
          /\ log[i + 1].ev = "stop_lab.raise"
          /\ i + 1 = Len(log)

C18_DeleteWithoutSecondaryIsAnomaly ==
    \A i \in RecreateProbes :
        (log[i].first = DELETE /\ log[i].second = None) =>
            /\ i < Len(log)
            /\ log[i + 1].ev = "fallback"

\* the functions that select the lab tab, and the log entries of their failures
TabSelecting ==
    ActionOperations \cup {"recreate_lab", "increase_autostop", "increase_lifespan",
                           "get_autostop_hours_remaining", "lab_start"}
TabFailures == {i \in DOMAIN log : log[i].ev \in {fn \o ".tab_failed" : fn \in TabSelecting}}
RaiseEvents == {fn \o ".raise" : fn \in TabSelecting}

\* the failure logged at i left every recreate_lab invocation at once
Propagated(i) ==
    /\ i + 1 = Len(log)
    /\ log[i + 1].ev \in RaiseEvents
    /\ Depth(stack) = 0

\* the failure logged at i is that of the delete_lab of the unknown-state fallback
InFallbackDelete(i) ==
    /\ log[i].ev = "delete_lab.tab_failed"
    /\ i >= 3
    /\ log[i - 1].ev = "delete_lab"
    /\ log[i - 2].ev = "fallback"

\* C14 as stated: a tab-selection failure raised anywhere during recreate_lab
\* (initial probe, delete_lab or create_lab of any branch, adjustments)
\* propagates out of recreate_lab
C14_TabFailurePropagates ==
    \A i \in TabFailures : log[i].d >= 1 => Propagated(i)

\* C14, amended: a tab-selection failure during recreate_lab propagates out
\* of it, except in two places where it is caught: in the delete_lab of the
\* unknown-state fallback, after which recreate_lab goes on to create_lab,
\* and in get_autostop_hours_remaining, after which increase_autostop goes
\* on with a reading of 0
C14_TabFailurePropagatesUnlessCaught ==
    \A i \in TabFailures :
        log[i].d >= 1 =>
            IF log[i].ev = "get_autostop_hours_remaining.tab_failed"
            THEN log[i + 1].ev = "increase_autostop.hours" /\ log[i + 1].n = 0
            ELSE IF InFallbackDelete(i)
            THEN /\ log[i + 1].ev = "delete_lab.raise"
                 /\ i + 1 = Len(log) => At("recreate_lab", "fb_create")
                 /\ i + 1 < Len(log) => log[i + 2].ev = "create_lab"
            ELSE Propagated(i)

\* recreate_lab returned although the tab selection of the fallback's
\* delete_lab and that of get_autostop_hours_remaining had failed
C14_Witness ==
    /\ Returned("recreate_lab")
    /\ \E i \in TabFailures : InFallbackDelete(i)
    /\ Positions("get_autostop_hours_remaining.tab_failed") # {}

\* a lab command was run, and it ended with this outcome
CommandRun == log # << >> /\ log[1].ev \in Commands
CommandEnded(status) == CommandRun /\ outcome = status

\* the hard failures in the log: tab-selection failures and timed-out waits
HardFailures == TabFailures \cup Positions("timeout")

\* the failure logged at i happened inside the try block of the
\* unknown-state fallback, before its create_lab
InFallbackTry(i) ==
    \E f \in Positions("fallback") :
        /\ f < i
        /\ \A k \in f..i : log[k].ev # "create_lab"

\* the failure logged at i is one the lab manager catches itself
CaughtFailure(i) ==
    \/ log[i].ev = "get_autostop_hours_remaining.tab_failed"
    \/ InFallbackTry(i)

DeleteBranchProbes ==
    {i \in DOMAIN log : log[i].ev = "check_lab_status" /\ log[i].first \in {DELETE, DELETING}}

\* the events after position i of the recreate_lab invocation probing at i
SameInvocation(i) == {j \in (i + 1)..Len(log) : log[j].d = log[i].d}

\* C22: in the DELETE and DELETING branches of recreate_lab, create_lab is
\* called only right after the wait has read CREATE as the first button, in
\* the DELETE branch after delete_lab has returned; when the wait times out,
\* recreate_lab raises and has not called and does not call create_lab
C22_CreateOnlyAfterCreateObserved ==
    \A i \in DeleteBranchProbes :
        \A j \in SameInvocation(i) :
            /\ log[j].ev = "create_lab" =>
                  /\ j - 1 > i
                  /\ log[j - 1].ev = "recreate_lab.wait"
                  /\ log[j - 1].first = CREATE
                  /\ log[i].first = DELETE =>
                        \E k \in (i + 1)..(j - 2) : log[k].ev = "delete_lab.return"
            /\ (log[j].ev = "timeout" /\ log[j + 1].ev = "recreate_lab.raise") =>
                  /\ j + 1 = Len(log)
                  /\ stack = << >>
                  /\ outcome \in {"raised", "exit 1"}
                  /\ \A k \in SameInvocation(i) : log[k].ev # "create_lab"

\* the DELETE branch deleted a lab, read CREATE and called create_lab
C22_Witness ==
    \E i \in DeleteBranchProbes :
        /\ log[i].first = DELETE
        /\ \E j \in SameInvocation(i) : log[j].ev = "create_lab"

\* the reading logged by the increase_autostop call at position a
ReadingOf(a) ==
    IF log[a + 1].ev = "increase_autostop.hours" THEN log[a + 1].n ELSE log[a + 2].n

\* the click events of the adjustment call at position a
ClicksOf(a) ==
    {j \in (a + 1)..Len(log) :
        /\ log[j].ev = log[a].ev \o ".click"
        /\ \A k \in (a + 1)..j : k \notin AdjustmentCalls}

AutostopCall(k) == CHOOSE a \in AdjustmentCalls :
                      Cardinality({i \in AdjustmentCalls : i < a}) = 2 * k - 2
LifespanCall(k) == CHOOSE a \in AdjustmentCalls :
                      Cardinality({i \in AdjustmentCalls : i < a}) = 2 * k - 1

\* the applications whose second call was made
Applications == {k \in 1..MaxApplications : Cardinality(AdjustmentCalls) >= 2 * k}

\* the k-th application succeeded: the lifespan button was clicked, and the
\* auto-stop button was clicked or the reading showed nothing to add
Succeeded(k) ==
    /\ k \in Applications
    /\ ClicksOf(LifespanCall(k)) # {}
    /\ \/ ClicksOf(AutostopCall(k)) # {}
       \/ ReadingOf(AutostopCall(k)) >= max_hours

\* the reading of the k-th application could be taken
ReadingTaken(k) == log[AutostopCall(k) + 1].ev = "increase_autostop.hours"

TabCallEnded(result) ==
    /\ selector.fn = "select_lab_environment_tab"
    /\ selector.pc = "idle"
    /\ selector.result = result

\* C12: whenever select_lab_environment_tab returns without raising, whatever
\* the tab name and the interface, the tab was clicked and the locator of the
\* requested tab in the chosen interface was then read with aria-selected
\* "true" before the return
C12_ReturnedTabObservedSelected ==
    TabCallEnded("returned") =>
        /\ lower(selector.tab_name) \in tab_selector_keys
        /\ selector.locator = tab_selectors(lower(selector.tab_name))[selector.interface]
        /\ selector.clicks >= 1
        /\ selector.observed

\* the lab-environment tab of an old-interface page was selected at the
\* second attempt
C12_Witness ==
    /\ TabCallEnded("returned")
    /\ selector.tab_name = tnLabEnvironment
    /\ selector.interface = INTERFACE_OLD
    /\ selector.clicks = 2
    /\ course_page.selected = "8"

\* the requested tab can be selected on the page through the locator of
\* this interface
Selectable(interface) ==
    /\ course_page.interface = interface
    /\ course_page.loaded
    /\ ~course_page.banner
    /\ course_page.responsive

\* C13: select_lab_environment_tab raises its tab-selection failure only if
\* the requested tab can be selected through neither the old-interface nor
\* the new-interface locator
C13_RaisesOnlyIfNeitherLocatorWorks ==
    [][(selector.pc # "idle" /\ selector'.pc = "idle" /\ selector'.result = "raised")
          => ~(Selectable(INTERFACE_OLD) \/ Selectable(INTERFACE_NEW))]_vars

\* C15: once _detect_interface_type has returned a value, every later call
\* returns that value without inspecting the page until
\* reset_interface_detection is called; the first call of the session and
\* the first call after a reset inspect the page
C15_DetectionMemoizedUntilReset ==
    /\ detections.prev # "None" =>
          /\ detections.ret = detections.prev
          /\ ~detections.inspected
    /\ (detections.ret # "None" /\ detections.prev = "None") => detections.inspected

\* after a reset the detection returned another value than before it, and a
\* later call returned that value again without inspecting the page, which
\* by now renders the other interface
C15_Witness ==
    /\ detections.before_reset # "None"
    /\ detections.before_reset # detections.ret
    /\ detections.prev = detections.ret
    /\ ~detections.inspected
    /\ course_page.loaded
    /\ course_page.interface # detections.ret

\* C16: _detect_interface_type never raises and returns OLD or NEW: NEW when
\* the new marker is found, OLD only when the new marker is not found and
\* the old one is, NEW when neither is found, lookup errors included
C16_DetectionTotal ==
    /\ selector.fn = "detect_interface_type" => selector.result # "raised"
    /\ detections.ret # "None" =>
          /\ detections.ret \in {INTERFACE_OLD, INTERFACE_NEW}
          /\ detections.new_marker = "found" => detections.ret = INTERFACE_NEW
          /\ (detections.inspected /\ detections.ret = INTERFACE_OLD) =>
                (detections.new_marker = "missing" /\ detections.old_marker = "found")
          /\ (detections.new_marker = "missing" /\ detections.old_marker = "missing") =>
                detections.ret = INTERFACE_NEW

\* on a loaded old-interface page both lookups failed and the call returned NEW
C16_Witness ==
    /\ selector.fn = "detect_interface_type"
    /\ selector.result = "returned"
    /\ detections.inspected
    /\ detections.new_marker = "missing"
    /\ detections.old_marker = "missing"
    /\ detections.ret = INTERFACE_NEW
    /\ course_page.interface = INTERFACE_OLD
    /\ course_page.loaded

\* C23: after a navigation to a course page the memoized interface type is
\* cleared, and the first detection after it inspects the page it finds
C23_NavigationClearsMemo ==
    /\ detections.navigated => ~memoized
    /\ detections.after_navigation => detections.inspected

(***************************************************************************)
(* Properties of the ticket assignment (specification SnowSpec)            *)
(***************************************************************************)
\* C20: when the caller of run_auto_assignment supplies an assignee name,
\* the tickets of the cycle are assigned to that assignee, whatever the
\* shift manager says and whatever the team configuration
C20_ExplicitAssigneeTakesPrecedence ==
    assignment.requested # NoValue =>
        \A i \in DOMAIN assignment.assigned_to :
            assignment.assigned_to[i] = assignment.requested

(***************************************************************************)
(* Properties of the QA report (specification QASpec)                      *)
(***************************************************************************)
Sections(list) == {list[i].chapter_section : i \in 1..Len(list)}
NoDuplicates(list) == Cardinality(Sections(list)) = Len(list)

\* C21: on a report whose list was loaded without duplicate chapter_section
\* values the list never holds two results of one chapter_section; a result
\* whose chapter_section is present replaces that entry in place, the length
\* and every other entry staying as they were, and a result with a new
\* chapter_section becomes the last entry
C21_UpsertByChapterSection ==
    NoDuplicates(upsert.loaded) =>
        /\ NoDuplicates(exercises)
        /\ upsert.result # << >> =>
              LET prev == upsert.prev
                  result == upsert.result[1]
              IN  IF result.chapter_section \in Sections(prev)
                  THEN /\ Len(exercises) = Len(prev)
                       /\ \A i \in 1..Len(prev) :
                             exercises[i] =
                               IF prev[i].chapter_section = result.chapter_section
                               THEN result ELSE prev[i]
                  ELSE /\ Len(exercises) = Len(prev) + 1
                       /\ SubSeq(exercises, 1, Len(prev)) = prev
                       /\ exercises[Len(exercises)] = result

\* a changed result replaced the second of at least two entries, and a new
\* chapter_section had been appended before
C21_Witness ==
    /\ NoDuplicates(upsert.loaded)
    /\ Len(upsert.prev) > Len(upsert.loaded)
    /\ upsert.result # << >>
    /\ Len(upsert.prev) >= 2
    /\ upsert.prev[2].chapter_section = upsert.result[1].chapter_section
    /\ upsert.prev[2] # upsert.result[1]
    /\ exercises[2] = upsert.result[1]

(***************************************************************************)
(* Properties of ticket processing (specification TicketSpec)              *)
(***************************************************************************)
\* C26: process_t1_ticket and process_t2_ticket send at most two updates,
\* the categorization and acknowledgement first (it never carries
\* assigned_to) and the assigned_to update second; the second is sent only
\* after the first succeeded, none is sent when the assignee is not
\* resolved, and the function returns True only if both succeeded
C26_TwoPhaseUpdate ==
    LET sent == processing.sent
    IN  /\ Len(sent) <= 2
        /\ Len(sent) >= 1 =>
              /\ {"state", "category", "time_worked"} \subseteq sent[1].fields
              /\ "assigned_to" \notin sent[1].fields
              /\ Truthy(processing.assignee_sys_id)
        /\ Len(sent) = 2 =>
              /\ sent[2].fields = {"assigned_to"}
              /\ sent[1].ok
        /\ ~Truthy(processing.assignee_sys_id) => sent = << >>
        /\ processing.result = "True" =>
              /\ Len(sent) = 2
              /\ sent[1].ok /\ sent[2].ok
        /\ (processing.pc = "idle" /\ Len(sent) = 2 /\ sent[2].ok) =>
              processing.result = "True"

\* the acknowledgement went through and the assignment failed
C26_Witness ==
    /\ processing.fn = "process_t1_ticket"
    /\ Len(processing.sent) = 2
    /\ processing.sent[1].ok
    /\ ~processing.sent[2].ok
    /\ "comments" \in processing.sent[1].fields
    /\ processing.result = "False"

(***************************************************************************)
(* Properties of the link retry (specification RetrySpec)                  *)
(***************************************************************************)
\* the results of report r that were invalid when the retry started
InvalidAtStart(r) ==
    {i \in 1..Len(retry.start[r].results) : ~retry.start[r].results[i].is_valid}

\* those of them that are valid now
Fixed(r) == {i \in InvalidAtStart(r) : reports[r].results[i].is_valid}

RECURSIVE FixedUpTo(_)
FixedUpTo(r) == IF r = 0 THEN 0 ELSE Cardinality(Fixed(r)) + FixedUpTo(r - 1)

\* C27: retry_failed_links validates again exactly the results that were
\* invalid when it started and updates them in place; it returns the number
\* of them that became valid; in every report broken_links went down and
\* valid_links up by the number of its results that were fixed, the sum of
\* the two and the number of results staying as they were
C27_RetryMovesFixedLinks ==
    retry.pc # "idle" \/ retry.returned =>
        /\ Len(reports) = Len(retry.start)
        /\ \A r \in 1..Len(reports) :
              LET now == reports[r]
                  was == retry.start[r]
              IN  /\ Len(now.results) = Len(was.results)
                  /\ \A i \in 1..Len(was.results) :
                        /\ now.results[i].url = was.results[i].url
                        /\ was.results[i].is_valid => now.results[i].is_valid
                  /\ now.broken_links = was.broken_links - Cardinality(Fixed(r))
                  /\ now.valid_links = was.valid_links + Cardinality(Fixed(r))
                  /\ now.valid_links + now.broken_links = Len(now.results)
        /\ \A p \in retry.revalidated : p[2] \in InvalidAtStart(p[1])
        /\ retry.returned =>
              /\ retry.result = FixedUpTo(Len(reports))
              /\ \A r \in 1..Len(reports) :
                    \A i \in InvalidAtStart(r) : <<r, i>> \in retry.revalidated

\* a retry over two reports with failed results ended with one link fixed
\* in each and one still failing
C27_Witness ==
    /\ retry.returned
    /\ retry.result = 2
    /\ Len(reports) = 2
    /\ Cardinality(Fixed(1)) = 1
    /\ Cardinality(Fixed(2)) = 1
    /\ reports[1].broken_links = 1
    /\ reports[1].valid_links = 1

(***************************************************************************)
(* Properties of the parallel link check (specification CheckSpec)         *)
(***************************************************************************)
\* the results the report holds for link i
ResultsOf(i) ==
    {k \in 1..Len(checking.report.results) : checking.report.results[k].link = i}

\* the report counts every result once, as valid or as broken
Counted ==
    LET report == checking.report
    IN  /\ report.valid_links + report.broken_links = Len(report.results)
        /\ report.valid_links =
              Cardinality({k \in 1..Len(report.results) : report.results[k].is_valid})

\* a link has at most one result, which is the one its future gave; the
\* report is counted between two iterations; a checked section has one
\* result for every link
ReportConsistent ==
    /\ \A i \in DOMAIN checking.futures :
          /\ Cardinality(ResultsOf(i)) <= 1
          /\ \A k \in ResultsOf(i) :
                /\ i \in Completed
                /\ checking.report.results[k] = future_result(i)
    /\ (checking.pc \in {"as_completed", "checked"} => Counted)
    /\ (checking.pc = "checked" =>
          \A i \in DOMAIN checking.futures : Cardinality(ResultsOf(i)) = 1)

\* C28: in the parallel path the workers only compute results and the
\* report changes only in steps of the submitting thread; whatever the
\* interleaving, a link has at most one result, the result of a worker that
\* raised is an invalid "Thread error" result, between two iterations of
\* the collecting loop valid_links + broken_links is the number of results,
\* and when the section is done every submitted link has exactly one result
C28_OnlySubmitterUpdatesReport ==
    /\ []ReportConsistent
    /\ [][(checking'.report # checking.report) =>
             (/\ checking.pc \in {"as_completed", "count"}
              /\ checking'.futures = checking.futures)]_vars

\* three links were checked by two workers at a time; the last one
\* submitted was collected first, one worker raised, one link is valid
C28_Witness ==
    /\ checking.pc = "checked"
    /\ Len(checking.report.results) = 3
    /\ checking.report.results[1].link = 3
    /\ \E k \in 1..3 : checking.report.results[k].error_message = "Thread error"
    /\ checking.report.valid_links = 1
    /\ checking.report.broken_links = 2

(***************************************************************************)
(* Properties of the two start sequences (specification StartSpec)         *)
(***************************************************************************)
BothStarted ==
    /\ starting.start.pc = "done"
    /\ starting.start_lab_for_course.pc = "done"

\* C30: on the same probe results `lab start` and start_lab_for_course make
\* the same create_lab and start_lab calls, and after creating a lab from
\* (CREATE, none) `lab start` calls start_lab exactly when the status
\* probed after the creation has secondary START
C30_SameCallsAsStartLabForCourse ==
    BothStarted =>
      /\ starting.start.calls = starting.start_lab_for_course.calls
      /\ (starting.probes[1] = <<CREATE, None>> =>
            ((\E k \in 1..Len(starting.start.calls) : starting.start.calls[k] = "start_lab")
               <=> starting.probes[2][2] = START))

=============================================================================
